---- MODULE Spec2Model ----
(***************************************************************************)
(* Model of the rail journey planner: the clock arithmetic (RailTime), the *)
(* travel-graph builder (TravelGraph::new) and the time-dependent          *)
(* shortest-path engine (dijkstras::TimeDijkstras) with its journey        *)
(* reconstruction (best_journey).                                          *)
(*                                                                         *)
(* Number representation.  Every number of the program is a u32.  The      *)
(* model checker's integers are 32-bit signed, so a u32 value x is held as *)
(* its two's-complement image: x itself when x < 2^31, and x - 2^32 when   *)
(* x >= 2^31.  u32::MAX = 4294967295 is therefore held as -1.  Order and   *)
(* arithmetic go through U32Lt / U32Le / U32Add / U32Sub / U32Mod, which   *)
(* are the unsigned operations on that image.                              *)
(***************************************************************************)
EXTENDS Integers, Sequences, FiniteSets, TLC

----------------------------------------------------------------------------
(* u32 arithmetic                                                          *)

\* Largest signed value of the checker; 2^31 - 1.
MaxI32 == 2147483647

\* std::u32::MAX (4294967295) in two's-complement form.
UINT_MAX == -1

\* Unsigned a < b.
U32Lt(a, b) ==
    IF (a < 0) = (b < 0) THEN a < b ELSE b < 0

\* Unsigned a <= b.
U32Le(a, b) == a = b \/ U32Lt(a, b)

\* Unsigned a > b.
U32Gt(a, b) == U32Lt(b, a)

\* a + b modulo 2^32 (the wrapping sum).
U32Add(a, b) ==
    IF a >= 0 /\ b >= 0 /\ a > MaxI32 - b
      THEN (a - MaxI32 - 1) + (b - MaxI32 - 1)
    ELSE IF a < 0 /\ b < 0 /\ a < (-MaxI32 - 1) - b
      THEN (a + MaxI32 + 1) + (b + MaxI32 + 1)
    ELSE a + b

\* a - b modulo 2^32 (the wrapping difference).
U32Sub(a, b) ==
    IF a >= 0 /\ b < 0 /\ a > MaxI32 + b
      THEN (a - MaxI32 - 1) - (b + MaxI32 + 1)
    ELSE IF a < 0 /\ b >= 0 /\ a < (-MaxI32 - 1) + b
      THEN (a + MaxI32 + 1) - (b - MaxI32 - 1)
    ELSE a - b

\* Unsigned a % m, for 0 < m < 2^31.  2^32 = 2 * (MaxI32 + 1).
U32Mod(a, m) ==
    IF a >= 0 THEN a % m
    ELSE ((a % m) + 2 * (((MaxI32 % m) + 1) % m)) % m

\* Unsigned a / m, for 0 < m < 2^30.
U32Div(a, m) ==
    IF a >= 0 THEN a \div m
    ELSE LET x == (a + MaxI32) + 1
         IN (x \div m) + (MaxI32 \div m) + (((x % m) + (MaxI32 % m) + 1) \div m)

\* a * b modulo 2^32 (the wrapping product), for a multiplier 0 <= b < 2^31.
RECURSIVE U32Mul(_, _)
U32Mul(a, b) ==
    IF b = 0 THEN 0
    ELSE IF a >= 0 /\ a <= MaxI32 \div b THEN a * b
    ELSE U32Add(IF b % 2 = 1 THEN a ELSE 0, U32Mul(U32Add(a, a), b \div 2))

\* a * b leaves the u32 range, for 0 < b < 2^30.
U32MulOverflows(a, b) == U32Gt(a, U32Div(UINT_MAX, b))

----------------------------------------------------------------------------
(* RailTime: seconds since 00:00                                           *)

\* 24*60*60
DAY == 86400

\* RailTime::new(hours, mins): (hours*60*60 + mins*60) % (24*60*60) in u32,
\* as a build without overflow checks computes it.
RailTimeNew(hours, mins) ==
    U32Mod(U32Add(U32Mul(U32Mul(hours, 60), 60), U32Mul(mins, 60)), DAY)

\* The arithmetic of RailTime::new leaves the u32 range: a build with
\* overflow checks panics there.
newOverflows(hours, mins) ==
    \/ U32MulOverflows(hours, 60)
    \/ U32MulOverflows(U32Mul(hours, 60), 60)
    \/ U32MulOverflows(mins, 60)
    \/ U32Lt(U32Add(U32Mul(U32Mul(hours, 60), 60), U32Mul(mins, 60)),
             U32Mul(U32Mul(hours, 60), 60))

\* Mutant of timetil: a time equal to self is a day away.
timetilWrapOnEqual(self, other) ==
    IF ~U32Lt(self, other)
      THEN U32Sub(U32Add(other, DAY), self)
      ELSE U32Sub(other, self)

\* RailTime::timetil: seconds from self until other, wrapping to the next
\* day when other is in the past.
timetil(self, other) ==
    IF U32Gt(self, other)
      THEN U32Sub(U32Add(other, DAY), self)
      ELSE U32Sub(other, self)

\* Mutant of add: no wrap at the end of the day.
addNoWrap(self, secs) == U32Add(self, secs)

\* RailTime::add
add(self, secs) == U32Mod(U32Add(self, secs), DAY)

\* Mutant of sub: no wrap to the previous day.
subNoWrap(self, secs) ==
    IF U32Gt(secs, self) THEN 0 ELSE U32Sub(self, secs)

\* RailTime::sub
sub(self, secs) ==
    IF U32Gt(secs, self)
      THEN U32Sub(U32Add(self, DAY), secs)
      ELSE U32Sub(self, secs)

\* The u32 arithmetic of each function leaves the range: a build with
\* overflow checks panics there, a build without them wraps.
timetilOverflows(self, other) ==
    U32Gt(self, other) /\ U32Lt(U32Add(other, DAY), self)

addOverflows(self, secs) == U32Lt(U32Add(self, secs), self)

subOverflows(self, secs) ==
    U32Gt(secs, self) /\ U32Lt(U32Add(self, DAY), secs)

----------------------------------------------------------------------------
(* Links                                                                   *)

\* Link::Rail(RailLink {dst, service, depart, time})
Rail(dst, service, depart, time) ==
    [kind |-> "Rail", dst |-> dst, service |-> service,
     depart |-> depart, time |-> time, fkind |-> "-"]

\* Link::Fixed(FixedLink {dst, time, kind})
Fixed(dst, time, fkind) ==
    [kind |-> "Fixed", dst |-> dst, service |-> 0,
     depart |-> 0, time |-> time, fkind |-> fkind]

\* Link::Dummy
Dummy ==
    [kind |-> "Dummy", dst |-> 0, service |-> 0,
     depart |-> 0, time |-> 0, fkind |-> "-"]

\* Link::service: Some(service) for a Rail link, None otherwise.
service(link) ==
    IF link.kind = "Rail" THEN <<"Some", link.service>> ELSE <<"None">>

\* Link::ischange
ischange(self, other) ==
    service(self) # service(other) \/ service(self) = <<"None">>

----------------------------------------------------------------------------
(* Travel graph                                                            *)

\* Stations are numbered from 0; a registry is the sequence of the stations'
\* min_change_time, station id s at position s + 1.
StationIds(n) == 0 .. (n - 1)

\* timetable::Stop
Stop(station, arrival, departure) ==
    [station |-> station, arrival |-> arrival, departure |-> departure]

\* TGNode.links.push(link) on station s of graph g.
\* Mutant of PushLink: the link goes to the front of the list.
PushLinkFront(g, s, link) ==
    [g EXCEPT ![s].links = <<link>> \o @]

PushLink(g, s, link) ==
    [g EXCEPT ![s].links = Append(@, link)]

\* The loop over the fixed links (TravelGraph::new), from link i on.
RECURSIVE AddFixedLinks(_, _, _)
AddFixedLinks(g, fls, i) ==
    IF i > Len(fls) THEN g
    ELSE LET flink == fls[i]
             g1 == PushLink(g, flink.a, Fixed(flink.b, flink.time, flink.kind))
             g2 == PushLink(g1, flink.b, Fixed(flink.a, flink.time, flink.kind))
         IN AddFixedLinks(g2, fls, i + 1)

\* The inner loop over the consecutive stop pairs of one service: i is the
\* 1-based position of s1.
RECURSIVE AddServiceLinks(_, _, _)
AddServiceLinks(g, svc, i) ==
    IF i > Len(svc.stops) - 1 THEN g
    ELSE LET s1 == svc.stops[i]
             s2 == svc.stops[i + 1]
             g1 == PushLink(g, s1.station,
                            Rail(s2.station, svc.id, s1.departure,
                                 timetil(s1.departure, s2.arrival)))
         IN AddServiceLinks(g1, svc, i + 1)

\* The outcome of a call that panics.
Panic == <<"panic">>

\* The loop over the services of the timetable, from service i on.  For a
\* service without stops, stops.len() - 1 is 0 - 1 in usize: a build with
\* overflow checks panics on the subtraction, a build without them iterates
\* from 0 to usize::MAX and panics on stops[0]; both builds panic.
RECURSIVE AddServices(_, _, _)
AddServices(g, services, i) ==
    IF i > Len(services) THEN g
    ELSE IF Len(services[i].stops) = 0 THEN Panic
    ELSE AddServices(AddServiceLinks(g, services[i], 1), services, i + 1)

\* The timetil of some consecutive stop pair of the service leaves the u32
\* range (s1.departure > s2.arrival + 86400).
AddServiceLinksOverflows(svc) ==
    \E i \in 1 .. Len(svc.stops) - 1 :
      timetilOverflows(svc.stops[i].departure, svc.stops[i + 1].arrival)

\* TravelGraph::new reaches a timetil that leaves the u32 range: a build
\* with overflow checks panics there, a build without them stores the
\* wrapped time, as TravelGraphNew does.
TravelGraphNewOverflows(timetable) ==
    \E i \in DOMAIN timetable :
      /\ \A j \in 1 .. i - 1 : Len(timetable[j].stops) # 0
      /\ AddServiceLinksOverflows(timetable[i])

\* TravelGraph::new(stations, fixedlinks, timetable)
TravelGraphNew(stations, fixedlinks, timetable) ==
    LET g0 == [s \in StationIds(Len(stations)) |->
                 [links |-> <<>>, transfer_time |-> stations[s + 1]]]
    IN AddServices(AddFixedLinks(g0, fixedlinks, 1), timetable, 1)

----------------------------------------------------------------------------
(* dijkstras::TimeDijkstras                                                *)

ToVisit(station, time) == [station |-> station, time |-> time]

\* impl Ord for ToVisit: self < other.
ToVisitLess(self, other) ==
    IF self.time = other.time
      THEN self.station < other.station
      ELSE U32Lt(self.time, other.time)

\* Mutant of IsFirst: the order looks at the time only.
IsFirstByTime(tovisit, visitq) ==
    /\ tovisit \in visitq
    /\ \A other \in visitq : ~U32Lt(other.time, tovisit.time)

\* tovisit is the element BTreeSet::pop_first removes from visitq.
IsFirst(tovisit, visitq) ==
    /\ tovisit \in visitq
    /\ \A other \in visitq : other = tovisit \/ ToVisitLess(tovisit, other)

BestJourney(time, depart, last_station, last_link) ==
    [time |-> time, depart |-> depart,
     last_station |-> last_station, last_link |-> last_link]

\* Mutant of TimeDijkstrasNew: the initial time is i32::MAX.
TimeDijkstrasNewSigned(station_count, contingency) ==
    [visitq |-> {},
     contingency |-> contingency,
     nodes |-> [s \in StationIds(station_count) |->
                  BestJourney(MaxI32, RailTimeNew(0, 0), 0, Dummy)],
     origin |-> 0,
     flexi_depart |-> 0]

\* TimeDijkstras::new(station_count, contingency)
TimeDijkstrasNew(station_count, contingency) ==
    [visitq |-> {},
     contingency |-> contingency,
     nodes |-> [s \in StationIds(station_count) |->
                  BestJourney(UINT_MAX, RailTimeNew(0, 0), 0, Dummy)],
     origin |-> 0,
     flexi_depart |-> 0]

\* The part of TimeDijkstras::perform before its loop.
PerformBegin(self, start_station, start_time, flexi_depart) ==
    [self EXCEPT
       !.visitq = {ToVisit(start_station, 0)},
       !.nodes[start_station] =
           BestJourney(0, start_time, start_station, Dummy),
       !.origin = start_station,
       !.flexi_depart = flexi_depart]

\* Mutant of update_best: the improved station is not put on the queue.
update_best_unqueued(self, station, time, depart, last, link) ==
    [self EXCEPT !.nodes[station] = BestJourney(time, depart, last, link)]

\* Mutant of update_best: last_station is left as it was.
update_best_keep_last(self, station, time, depart, last, link) ==
    [self EXCEPT
       !.nodes[station] = BestJourney(time, depart,
                                      self.nodes[station].last_station, link),
       !.visitq = @ \cup {ToVisit(station, time)}]

\* TimeDijkstras::update_best
update_best(self, station, time, depart, last, link) ==
    [self EXCEPT
       !.nodes[station] = BestJourney(time, depart, last, link),
       !.visitq = @ \cup {ToVisit(station, time)}]

\* Mutant of ChangeTime: the first boarding at the origin is free.
ChangeTimeFreeStart(self, node, lastlink, link) ==
    IF ischange(lastlink, link) /\ lastlink # Dummy
      THEN U32Add(node.transfer_time, self.contingency)
      ELSE 0

\* chngtime of visit_next for a Rail link.
ChangeTime(self, node, lastlink, link) ==
    IF ischange(lastlink, link)
      THEN U32Add(node.transfer_time, self.contingency)
      ELSE 0

\* waittime of visit_next for a Rail link.
WaitTimeFlexiCharged(self, tovisit, curtime, chngtime, rlink) ==
    IF tovisit.station = self.origin
         /\ U32Lt(timetil(curtime, rlink.depart), self.flexi_depart)
      THEN chngtime
      ELSE U32Add(chngtime, timetil(add(curtime, chngtime), rlink.depart))

WaitTime(self, tovisit, curtime, chngtime, rlink) ==
    IF tovisit.station = self.origin
         /\ U32Lt(timetil(curtime, rlink.depart), self.flexi_depart)
      THEN 0
      ELSE U32Add(chngtime, timetil(add(curtime, chngtime), rlink.depart))

\* dsttime of visit_next: the candidate time at link.dst.
DstTime(self, node, tovisit, curtime, lastlink, link) ==
    IF link.kind = "Rail"
      THEN U32Add(U32Add(tovisit.time,
                         WaitTime(self, tovisit, curtime,
                                  ChangeTime(self, node, lastlink, link), link)),
                  link.time)
      ELSE U32Add(tovisit.time, link.time)

\* Mutant of DstDepart: for a Rail link the clock stored is the clock at
\* which the link leaves its source.
DstDepartSource(curtime, link) ==
    IF link.kind = "Rail"
      THEN link.depart
      ELSE add(curtime, link.time)

\* The clock stored at link.dst when the link improves it.
DstDepart(curtime, link) ==
    IF link.kind = "Rail"
      THEN add(link.depart, link.time)
      ELSE add(curtime, link.time)

\* Mutant of Improves: an equal time counts as an improvement.
ImprovesOrEqual(dsttime, besttime) == U32Le(dsttime, besttime)

\* The test that a candidate time improves the best of its destination.
Improves(dsttime, besttime) == U32Lt(dsttime, besttime)

\* Mutant of Requeue: the visited station is not put back on the queue.
RequeueDropped(self, tovisit) == self

\* What visit_next does after update_best on an improving link.
Requeue(self, tovisit) == [self EXCEPT !.visitq = @ \cup {tovisit}]

RECURSIVE VisitLinksNoReturn(_, _, _, _, _, _)
\* Mutant of VisitLinks: the visit goes on with the following links after an
\* improvement.
VisitLinksNoReturn(self, node, tovisit, curtime, lastlink, i) ==
    IF i > Len(node.links) THEN self
    ELSE LET link == node.links[i]
             dsttime == DstTime(self, node, tovisit, curtime, lastlink, link)
         IN IF link.kind \in {"Rail", "Fixed"}
                 /\ Improves(dsttime, self.nodes[link.dst].time)
              THEN VisitLinksNoReturn(
                     Requeue(update_best(self, link.dst, dsttime,
                                         DstDepart(curtime, link),
                                         tovisit.station, link),
                             tovisit),
                     node, tovisit, curtime, lastlink, i + 1)
              ELSE VisitLinksNoReturn(self, node, tovisit, curtime, lastlink,
                                      i + 1)

\* The loop of visit_next over the links of tovisit.station, from link i on:
\* the first improving link is applied, tovisit is put back and the visit
\* ends.
RECURSIVE VisitLinks(_, _, _, _, _, _)
VisitLinks(self, node, tovisit, curtime, lastlink, i) ==
    IF i > Len(node.links) THEN self
    ELSE LET link == node.links[i]
             dsttime == DstTime(self, node, tovisit, curtime, lastlink, link)
         IN IF link.kind \in {"Rail", "Fixed"}
                 /\ Improves(dsttime, self.nodes[link.dst].time)
              THEN Requeue(update_best(self, link.dst, dsttime,
                                       DstDepart(curtime, link),
                                       tovisit.station, link),
                           tovisit)
              ELSE VisitLinks(self, node, tovisit, curtime, lastlink, i + 1)

\* TimeDijkstras::visit_next
visit_next(self, graph, tovisit) ==
    VisitLinks(self, graph[tovisit.station], tovisit,
               self.nodes[tovisit.station].depart,
               self.nodes[tovisit.station].last_link, 1)

\* The journey reconstruction loop of best_journey: best is the record
\* being backtracked, links the vector built so far (latest link first),
\* depart the running departure clock.
RECURSIVE BacktrackAnyRail(_, _, _, _)
\* Mutant of Backtrack: consecutive Rail links merge whatever their service.
BacktrackAnyRail(self, best, links, depart) ==
    IF best.last_link = Dummy
      THEN [links |-> links, depart |-> depart, origin |-> best.last_station]
    ELSE
      LET n == Len(links)
          rnext == best.last_link
          merged ==
            IF n > 0 /\ links[n].kind = "Rail" /\ rnext.kind = "Rail"
              THEN [links EXCEPT ![n].depart = rnext.depart,
                                 ![n].time = U32Add(@, rnext.time)]
              ELSE Append(links, rnext)
          depart1 ==
            IF rnext.kind = "Rail" THEN rnext.depart
            ELSE IF rnext.kind = "Fixed" THEN sub(depart, rnext.time)
            ELSE depart
      IN BacktrackAnyRail(self, self.nodes[best.last_station], merged, depart1)

RECURSIVE Backtrack(_, _, _, _)
Backtrack(self, best, links, depart) ==
    IF best.last_link = Dummy
      THEN [links |-> links, depart |-> depart, origin |-> best.last_station]
    ELSE
      LET n == Len(links)
          rnext == best.last_link
          merged ==
            IF n > 0 /\ links[n].kind = "Rail" /\ rnext.kind = "Rail"
              THEN IF links[n].service = rnext.service
                     THEN [links EXCEPT
                             ![n].depart = rnext.depart,
                             ![n].time = U32Add(@, rnext.time)]
                     ELSE Append(links, rnext)
              ELSE Append(links, rnext)
          depart1 ==
            IF rnext.kind = "Rail" THEN rnext.depart
            ELSE IF rnext.kind = "Fixed" THEN sub(depart, rnext.time)
            ELSE depart
      IN Backtrack(self, self.nodes[best.last_station], merged, depart1)

RECURSIVE BacktrackOverflows(_, _, _, _)
\* The u32 arithmetic of the reconstruction loop leaves the range: the sum
\* of the times of two coalesced Rail links, or depart.sub(fl.time) for a
\* Fixed link of more than depart + 86400 seconds.
BacktrackOverflows(self, best, links, depart) ==
    IF best.last_link = Dummy THEN FALSE
    ELSE
      LET n == Len(links)
          rnext == best.last_link
          merges == /\ n > 0 /\ links[n].kind = "Rail" /\ rnext.kind = "Rail"
                    /\ links[n].service = rnext.service
          merged ==
            IF merges
              THEN [links EXCEPT
                      ![n].depart = rnext.depart,
                      ![n].time = U32Add(@, rnext.time)]
              ELSE Append(links, rnext)
          depart1 ==
            IF rnext.kind = "Rail" THEN rnext.depart
            ELSE IF rnext.kind = "Fixed" THEN sub(depart, rnext.time)
            ELSE depart
      IN \/ merges /\ addOverflows(links[n].time, rnext.time)
         \/ rnext.kind = "Fixed" /\ subOverflows(depart, rnext.time)
         \/ BacktrackOverflows(self, self.nodes[best.last_station], merged,
                               depart1)

\* Vec::reverse
Reverse(seq) == [i \in 1 .. Len(seq) |-> seq[Len(seq) + 1 - i]]

\* best_journey reaches arithmetic that leaves the u32 range: a build with
\* overflow checks panics there, a build without them returns the journey
\* with the wrapped values, as best_journey does.
best_journeyOverflows(self, destination) ==
    BacktrackOverflows(self, self.nodes[destination], <<>>,
                       self.nodes[destination].depart)

\* TimeDijkstras::best_journey
best_journey(self, destination) ==
    LET best == self.nodes[destination]
        r == Backtrack(self, best, <<>>, best.depart)
    IN [origin |-> r.origin, depart |-> r.depart,
        time |-> best.time, links |-> Reverse(r.links)]

----------------------------------------------------------------------------
(* Inputs                                                                  *)

\* Largest number of services in a timetable.
MaxServices == 3

\* Largest number of fixed links in the fixed-link list.
MaxFixedLinks == 1

T(hours, mins) == RailTimeNew(hours, mins)

\* The stop lists the timetables are drawn from.
ServicePool ==
    << \* 0 -> 1, 00:00 - 00:30
       << Stop(0, T(0, 0), T(0, 0)), Stop(1, T(0, 30), T(0, 30)) >>,
       \* 0 -> 1 -> 2 with a five minute stop at 1
       << Stop(0, T(0, 0), T(0, 0)), Stop(1, T(0, 30), T(0, 35)),
          Stop(2, T(1, 0), T(1, 0)) >>,
       \* 1 -> 2, 00:35 - 01:00
       << Stop(1, T(0, 35), T(0, 35)), Stop(2, T(1, 0), T(1, 0)) >>,
       \* 0 -> 2, 00:30 - 01:10
       << Stop(0, T(0, 30), T(0, 30)), Stop(2, T(1, 10), T(1, 10)) >>,
       \* 2 -> 1 -> 0, 01:10 - 01:30 - 01:45
       << Stop(2, T(1, 10), T(1, 10)), Stop(1, T(1, 30), T(1, 30)),
          Stop(0, T(1, 45), T(1, 45)) >>,
       \* 1 -> 2 in no time
       << Stop(1, T(0, 30), T(0, 30)), Stop(2, T(0, 30), T(0, 30)) >>,
       \* 0 -> 2 across midnight, 23:55 - 00:20
       << Stop(0, T(23, 55), T(23, 55)), Stop(2, T(0, 20), T(0, 20)) >>,
       \* 0 -> 1 -> 0 -> 2: calls at station 0 twice
       << Stop(0, T(0, 10), T(0, 10)), Stop(1, T(0, 20), T(0, 22)),
          Stop(0, T(0, 40), T(0, 41)), Stop(2, T(0, 50), T(0, 50)) >>,
       \* 2 -> 3, 01:05 - 01:20
       << Stop(2, T(1, 5), T(1, 5)), Stop(3, T(1, 20), T(1, 20)) >> >>

\* The fixed links the fixed-link lists are drawn from.
FixedLinkPool ==
    << [a |-> 0, b |-> 1, time |-> 10 * 60, kind |-> "Walk"],
       [a |-> 1, b |-> 2, time |-> 0, kind |-> "Tube"],
       [a |-> 2, b |-> 3, time |-> 5 * 60, kind |-> "Walk"] >>

\* The station registries: each station's min_change_time.
Registries == { <<0, 0, 0>>, <<120, 120, 120>>, <<60, 120, 300, 60>> }

Departs == { T(0, 0), T(23, 50) }
Contingencies == { 0, 4 * 60 }
FlexiDeparts == { 0, 60 * 60 }

\* The elements of seq at the positions in idx, in order of position.
RECURSIVE Pick(_, _, _)
Pick(seq, idx, i) ==
    IF i > Len(seq) THEN <<>>
    ELSE (IF i \in idx THEN <<seq[i]>> ELSE <<>>) \o Pick(seq, idx, i + 1)

\* A timetable: services numbered by their index (Service.id).
MakeTimetable(stoplists) ==
    [i \in 1 .. Len(stoplists) |-> [id |-> i - 1, stops |-> stoplists[i]]]

Timetables ==
    { MakeTimetable(Pick(ServicePool, idx, 1)) :
        idx \in { x \in SUBSET (1 .. Len(ServicePool)) :
                    Cardinality(x) <= MaxServices } }

FixedLinkLists ==
    { Pick(FixedLinkPool, idx, 1) :
        idx \in { x \in SUBSET (1 .. Len(FixedLinkPool)) :
                    Cardinality(x) <= MaxFixedLinks } }

\* Every station the fixed links and the stops name is in the registry (the
\* parsers resolve CRS codes and TIPLOCs through it).
ValidInput(registry, fls, services) ==
    /\ \A i \in DOMAIN fls :
         {fls[i].a, fls[i].b} \subseteq StationIds(Len(registry))
    /\ \A i \in DOMAIN services : \A j \in DOMAIN services[i].stops :
         services[i].stops[j].station \in StationIds(Len(registry))

\* compute_journeys' arguments for a graph of n stations; the destinations
\* are all the stations, in order.
Requests(n) ==
    [depart : Departs, origin : StationIds(n),
     destinations : { [i \in 1 .. n |-> i - 1] },
     contingency : Contingencies, flexi_depart : FlexiDeparts]

----------------------------------------------------------------------------
(* State                                                                   *)

VARIABLES
    stations,     \* the registry: min_change_time of each station
    fixedlinks,   \* the parsed fixed links
    timetable,    \* the parsed services
    graph,        \* the TravelGraph built at startup
    req,          \* per query: the arguments of compute_journeys
    pathfinder,   \* per query: its TimeDijkstras
    pc,           \* per query: "new", "loop", "panic" or "done"
    tovisit,      \* per query: the entry last popped, <<>> before the first
    journeys,     \* per query: the journeys returned
    call,         \* a call of a library function on its own: name, arguments
    ret           \* what that call returned, <<>> before it returns

vars == <<stations, fixedlinks, timetable, graph, req, pathfinder, pc,
          tovisit, journeys, call, ret>>

Queries == DOMAIN pc

\* The state after the graph is built and, for each query in qs,
\* compute_journeys has constructed its TimeDijkstras.
InitWith(qs) ==
    /\ stations \in Registries
    /\ fixedlinks \in FixedLinkLists
    /\ timetable \in Timetables
    /\ ValidInput(stations, fixedlinks, timetable)
    /\ graph = TravelGraphNew(stations, fixedlinks, timetable)
    /\ req \in [qs -> Requests(Len(stations))]
    /\ pathfinder = [q \in qs |->
                       TimeDijkstrasNew(Len(stations), req[q].contingency)]
    /\ pc = [q \in qs |-> "new"]
    /\ tovisit = [q \in qs |-> <<>>]
    /\ journeys = [q \in qs |-> <<>>]
    /\ call = <<>>
    /\ ret = <<>>

Init == InitWith({1})

\* Mutant of PerformIter: the staleness test is the wrong way round, so a
\* stale entry reaches the assertion.
PerformIterReversed(self, g, tv) ==
    IF U32Le(self.nodes[tv.station].time, tv.time)
      THEN IF tv.time = self.nodes[tv.station].time
             THEN [pf |-> visit_next(self, g, tv), pc |-> "loop"]
             ELSE [pf |-> self, pc |-> "panic"]
      ELSE [pf |-> self, pc |-> "loop"]

\* The body of perform's loop for the popped entry tv, self being the
\* TimeDijkstras after the pop: the station is visited unless the entry is
\* stale; the assertion fails on an entry below the station's best.
PerformIter(self, g, tv) ==
    IF U32Le(tv.time, self.nodes[tv.station].time)
      THEN IF tv.time = self.nodes[tv.station].time
             THEN [pf |-> visit_next(self, g, tv), pc |-> "loop"]
             ELSE [pf |-> self, pc |-> "panic"]
      ELSE [pf |-> self, pc |-> "loop"]

\* Mutant of Perform: the queue is shared between the calls, so that the
\* visitq.clear() of one call empties the queue of the calls in their loop.
PerformShared(qs) ==
    /\ qs # {}
    /\ \A q \in qs : pc[q] = "new"
    /\ pathfinder' = [q \in Queries |->
                        IF q \in qs
                          THEN PerformBegin(pathfinder[q], req[q].origin,
                                            req[q].depart, req[q].flexi_depart)
                          ELSE [pathfinder[q] EXCEPT !.visitq = {}]]
    /\ pc' = [q \in Queries |-> IF q \in qs THEN "loop" ELSE pc[q]]
    /\ UNCHANGED <<stations, fixedlinks, timetable, graph, req, tovisit,
                   journeys, call, ret>>

\* The queries in qs each start perform, up to its loop.
Perform(qs) ==
    /\ qs # {}
    /\ \A q \in qs : pc[q] = "new"
    /\ pathfinder' = [q \in Queries |->
                        IF q \in qs
                          THEN PerformBegin(pathfinder[q], req[q].origin,
                                            req[q].depart, req[q].flexi_depart)
                          ELSE pathfinder[q]]
    /\ pc' = [q \in Queries |-> IF q \in qs THEN "loop" ELSE pc[q]]
    /\ UNCHANGED <<stations, fixedlinks, timetable, graph, req, tovisit,
                   journeys, call, ret>>

\* The queries in qs each run one iteration of perform's loop: pop the
\* first entry of the queue and run the loop body on it.
Visit(qs) ==
    /\ qs # {}
    /\ \A q \in qs : pc[q] = "loop" /\ pathfinder[q].visitq # {}
    /\ \E pick \in [qs -> UNION { pathfinder[q].visitq : q \in qs }] :
         /\ \A q \in qs : IsFirst(pick[q], pathfinder[q].visitq)
         /\ LET r == [q \in qs |->
                        PerformIter([pathfinder[q] EXCEPT
                                       !.visitq = @ \ {pick[q]}],
                                    graph, pick[q])]
            IN /\ pathfinder' = [q \in Queries |->
                                   IF q \in qs THEN r[q].pf ELSE pathfinder[q]]
               /\ pc' = [q \in Queries |->
                           IF q \in qs THEN r[q].pc ELSE pc[q]]
         /\ tovisit' = [q \in Queries |->
                          IF q \in qs THEN <<pick[q]>> ELSE tovisit[q]]
    /\ UNCHANGED <<stations, fixedlinks, timetable, graph, req, journeys,
                   call, ret>>

\* For the queries in qs perform returns on an empty queue, and
\* compute_journeys maps best_journey over the destinations.
Return(qs) ==
    /\ qs # {}
    /\ \A q \in qs : pc[q] = "loop" /\ pathfinder[q].visitq = {}
    /\ journeys' = [q \in Queries |->
                      IF q \in qs
                        THEN [i \in 1 .. Len(req[q].destinations) |->
                                best_journey(pathfinder[q],
                                             req[q].destinations[i])]
                        ELSE journeys[q]]
    /\ pc' = [q \in Queries |-> IF q \in qs THEN "done" ELSE pc[q]]
    /\ UNCHANGED <<stations, fixedlinks, timetable, graph, req, pathfinder,
                   tovisit, call, ret>>

\* The queries run one at a time, in any order.
Next ==
    \/ \E q \in Queries : Perform({q})
    \/ \E q \in Queries : Visit({q})
    \/ \E q \in Queries : Return({q})

Spec == Init /\ [][Next]_vars

\* Two runs of compute_journeys on the same graph with the same arguments,
\* side by side: both take each step together.
InitPair ==
    /\ InitWith({1, 2})
    /\ req[1] = req[2]

NextPair ==
    \/ Perform(Queries)
    \/ Visit(Queries)
    \/ Return(Queries)

SpecPair == InitPair /\ [][NextPair]_vars

----------------------------------------------------------------------------
(* Reference cost model of a path (section 4.E): a passenger standing at   *)
(* station u after t seconds, having arrived by a link of label prev       *)
(* (the service of a Rail link, or none), takes link l.                    *)

\* A value no cost takes.
NoPath == 0 - 1

LinkLabel(l) == IF l.kind = "Rail" THEN <<"Some", l.service>> ELSE <<"None">>

\* Seconds after the start at which the passenger stands at l.dst.
RefArrive(g, start, cont, u, prev, t, l) ==
    IF l.kind = "Rail"
      THEN LET c == IF prev = LinkLabel(l) THEN 0
                    ELSE g[u].transfer_time + cont
               clock == (start + t + c) % DAY
               wait == (l.depart - clock) % DAY
           IN t + c + wait + l.time
      ELSE t + l.time

\* The (station, label) pairs a path can end in.
RefStates(g) ==
    (DOMAIN g) \X
      ({<<"None">>} \cup
       UNION { { LinkLabel(g[v].links[i]) : i \in DOMAIN g[v].links } :
               v \in DOMAIN g })

SetMin(S) == CHOOSE x \in S : \A y \in S : x <= y

\* One round of relaxation of the cheapest known cost D of each pair.
RefRelax(g, start, cont, D) ==
    [x \in DOMAIN D |->
       LET cands ==
             UNION { { RefArrive(g, start, cont, y[1], y[2], D[y],
                                 g[y[1]].links[i]) :
                         i \in { j \in DOMAIN g[y[1]].links :
                                   /\ g[y[1]].links[j].dst = x[1]
                                   /\ LinkLabel(g[y[1]].links[j]) = x[2] } } :
                     y \in { z \in DOMAIN D : D[z] # NoPath } }
           all == cands \cup ({D[x]} \ {NoPath})
       IN IF all = {} THEN NoPath ELSE SetMin(all)]

RECURSIVE RefFix(_, _, _, _)
RefFix(g, start, cont, D) ==
    LET D1 == RefRelax(g, start, cont, D)
    IN IF D1 = D THEN D ELSE RefFix(g, start, cont, D1)

\* The cheapest cost of a path of links from origin to each (station,
\* label) pair, NoPath where there is none.
RefCosts(g, start, origin, cont) ==
    RefFix(g, start, cont,
           [x \in RefStates(g) |->
              IF x = <<origin, <<"None">>>> THEN 0 ELSE NoPath])

\* The cheapest cost of a path of links from origin to station d.
MinCost(g, start, origin, cont, d) ==
    LET D == RefCosts(g, start, origin, cont)
        ends == { D[x] : x \in { y \in DOMAIN D : y[1] = d } } \ {NoPath}
    IN IF ends = {} THEN NoPath ELSE SetMin(ends)

----------------------------------------------------------------------------
(* Claims                                                                  *)

Done(q) == pc[q] = "done"

\* C1 (as claimed): after perform, for every destination reachable from
\* the origin, the best time is at most the cost of every path of links
\* from the origin to it under the section 4.E cost model, whatever the
\* interchange times, contingency and flexi_depart.
C1_Optimal ==
    \A q \in Queries :
      Done(q) =>
        \A d \in DOMAIN graph :
          LET m == MinCost(graph, req[q].depart, req[q].origin,
                           req[q].contingency, d)
          IN m # NoPath => U32Le(pathfinder[q].nodes[d].time, m)

\* The stations to which a directed path of links leads from the stations
\* in seen (those included).
RECURSIVE ReachFrom(_, _)
ReachFrom(g, seen) ==
    LET more == seen \cup
                UNION { { g[u].links[i].dst : i \in DOMAIN g[u].links } :
                        u \in seen }
    IN IF more = seen THEN seen ELSE ReachFrom(g, more)

Reachable(g, origin) == ReachFrom(g, {origin})

ZeroCosts(q) ==
    /\ \A s \in DOMAIN graph : graph[s].transfer_time = 0
    /\ req[q].contingency = 0
    /\ req[q].flexi_depart = 0

\* C2: with every interchange time 0, contingency 0 and flexi_depart 0,
\* the time computed for every station reachable from the origin is the
\* minimum over all paths of the time-dependent travel cost, measured from
\* the requested departure time.
C2_ZeroCostOptimal ==
    \A q \in Queries :
      (Done(q) /\ ZeroCosts(q)) =>
        \A v \in Reachable(graph, req[q].origin) :
          pathfinder[q].nodes[v].time =
            MinCost(graph, req[q].depart, req[q].origin, 0, v)

\* C2 witness: a finished zero-cost query in which some station is reached
\* over two links or more, one of them waited for until the next day.
C2_Witness ==
    \E q \in Queries :
      /\ Done(q) /\ ZeroCosts(q)
      /\ \E v \in DOMAIN graph :
           LET b == pathfinder[q].nodes[v]
           IN /\ b.time # UINT_MAX
              /\ b.time > DAY
              /\ b.last_link # Dummy
              /\ b.last_station # req[q].origin

\* C3: a destination that is not reachable from the origin gets a Journey
\* with time u32::MAX, no links and depart 00:00, and the query does not
\* panic.
C3_Unreachable ==
    \A q \in Queries :
      /\ pc[q] # "panic"
      /\ Done(q) =>
           \A i \in DOMAIN journeys[q] :
             req[q].destinations[i] \notin Reachable(graph, req[q].origin) =>
               /\ journeys[q][i].time = UINT_MAX
               /\ journeys[q][i].links = <<>>
               /\ journeys[q][i].depart = RailTimeNew(0, 0)

\* C3 witness: a finished query with an unreachable destination and a
\* reachable one, asked to depart at another time than 00:00.
C3_Witness ==
    \E q \in Queries :
      /\ Done(q)
      /\ req[q].depart # RailTimeNew(0, 0)
      /\ \E i, j \in DOMAIN journeys[q] :
           /\ req[q].destinations[i] \notin Reachable(graph, req[q].origin)
           /\ req[q].destinations[j] \in Reachable(graph, req[q].origin)
           /\ req[q].destinations[j] # req[q].origin

\* C4: when perform has terminated, the best time of a station is below
\* u32::MAX exactly when a directed path of links leads to it from the
\* origin, and the origin's time is 0.
C4_FiniteIffReachable ==
    \A q \in Queries :
      Done(q) =>
        /\ pathfinder[q].nodes[req[q].origin].time = 0
        /\ \A v \in DOMAIN graph :
             (pathfinder[q].nodes[v].time # UINT_MAX)
               <=> (v \in Reachable(graph, req[q].origin))

\* C4 witness: a finished query with a station reached over a link out of
\* a station other than the origin, and a station not reached.
C4_Witness ==
    \E q \in Queries :
      /\ Done(q)
      /\ \E v, w \in DOMAIN graph :
           /\ pathfinder[q].nodes[v].time # UINT_MAX
           /\ pathfinder[q].nodes[v].last_link # Dummy
           /\ pathfinder[q].nodes[v].last_station # req[q].origin
           /\ pathfinder[q].nodes[w].time = UINT_MAX

\* The measure of the progress of query q: the number of stations not yet
\* reached, the sum of the best times of those reached, and the length of
\* the queue; three naturals, compared in this order.
RECURSIVE TimeSum(_, _)
TimeSum(nodes, S) ==
    IF S = {} THEN 0
    ELSE LET v == CHOOSE x \in S : TRUE
         IN (IF nodes[v].time = UINT_MAX THEN 0 ELSE nodes[v].time)
            + TimeSum(nodes, S \ {v})

Variant(pf) ==
    << Cardinality({ v \in DOMAIN pf.nodes : pf.nodes[v].time = UINT_MAX }),
       TimeSum(pf.nodes, DOMAIN pf.nodes),
       Cardinality(pf.visitq) >>

LexLess(a, b) ==
    \/ a[1] < b[1]
    \/ a[1] = b[1] /\ a[2] < b[2]
    \/ a[1] = b[1] /\ a[2] = b[2] /\ a[3] < b[3]

\* C5: the main loop of perform terminates, whatever the graph (cycles,
\* links of no time, several links between two stations) and the query:
\* every step of a query in the loop either leaves the loop on an empty
\* queue, or is an iteration that strictly decreases the measure, which is
\* well-founded; putting the visited station back on the queue comes with
\* a strict improvement of a best time.
C5_Terminates ==
    [][\A q \in Queries :
         (pc[q] = "loop" /\ <<pathfinder[q], pc[q], tovisit[q]>>
                              # <<pathfinder'[q], pc'[q], tovisit'[q]>>)
           => \/ pc'[q] = "done" /\ pathfinder'[q].visitq = {}
              \/ /\ pc'[q] = "loop"
                 /\ \A i \in 1 .. 3 : Variant(pathfinder'[q])[i] >= 0
                 /\ LexLess(Variant(pathfinder'[q]), Variant(pathfinder[q]))
      ]_vars

\* C5 witness: a finished query over a graph with a cycle, a link of time 0
\* and two links between the same two stations, in which some station
\* improved two others, so it was put back on the queue and visited again.
C5_Witness ==
    \E q \in Queries :
      /\ Done(q)
      /\ \E u \in DOMAIN graph :
           u \in ReachFrom(graph, { graph[u].links[i].dst :
                                      i \in DOMAIN graph[u].links } \ {u})
      /\ \E u \in DOMAIN graph : \E i \in DOMAIN graph[u].links :
           graph[u].links[i].time = 0
      /\ \E u \in DOMAIN graph : \E i, j \in DOMAIN graph[u].links :
           i # j /\ graph[u].links[i].dst = graph[u].links[j].dst
      /\ \E u \in DOMAIN graph :
           Cardinality({ v \in DOMAIN graph :
                           /\ pathfinder[q].nodes[v].last_link # Dummy
                           /\ pathfinder[q].nodes[v].last_station = u }) >= 2

\* C6: compute_journeys is deterministic: two runs on the same graph with
\* the same arguments pop the same entries in the same order, each pop
\* taking the entry of the smallest time and, among equal times, of the
\* smallest station id, and they return the same journeys.
C6_Deterministic ==
    /\ [](\A q1, q2 \in Queries :
           /\ tovisit[q1] = tovisit[q2]
           /\ pc[q1] = pc[q2]
           /\ journeys[q1] = journeys[q2])
    /\ [][\A q \in Queries :
           (pc[q] = "loop" /\ pc'[q] = "loop" /\ vars' # vars) =>
             /\ Len(tovisit'[q]) = 1
             /\ tovisit'[q][1] \in pathfinder[q].visitq
             /\ \A e \in pathfinder[q].visitq :
                  \/ tovisit'[q][1].time < e.time
                  \/ /\ tovisit'[q][1].time = e.time
                     /\ tovisit'[q][1].station <= e.station
        ]_vars

\* C6 witness: two runs side by side, past their first pop, whose queues
\* hold two entries of the same time, so that the station id decides.
C6_Witness ==
    /\ Queries = {1, 2}
    /\ pc[1] = "loop" /\ pc[2] = "loop"
    /\ tovisit[1] # <<>>
    /\ pathfinder[1] = pathfinder[2]
    /\ \E e1, e2 \in pathfinder[1].visitq :
         e1.time = e2.time /\ e1.station # e2.station

\* Seconds from clock a until clock b, the same day or the next.
RefWait(a, b) == (b - a) % DAY

\* The flexi-depart rule applies to link l out of station u in query q.
FlexiRule(q, u, l) ==
    /\ l.kind = "Rail"
    /\ u = req[q].origin
    /\ RefWait(req[q].depart, l.depart) < req[q].flexi_depart

\* The change cost the claim names for Rail link l taken at u after prev.
RefChange(q, u, prev, l) ==
    IF prev.kind = "Rail" /\ prev.service = l.service
      THEN 0
      ELSE graph[u].transfer_time + req[q].contingency

\* C7: when a Rail link (service sv, depart d, time r) is relaxed at
\* station u outside the flexi-depart rule, the candidate time is
\* T + C + timetil(clock(u) + C, d) + r, with C = xfer(u) + contingency when
\* u was reached by the Dummy link (the origin), a Fixed link or a Rail link
\* of another service, and C = 0 when it was reached by a Rail link of sv.
C7_RailCandidate ==
    [][\A q \in Queries : \A v \in DOMAIN graph :
         (pc[q] = "loop"
            /\ pathfinder'[q].nodes[v] # pathfinder[q].nodes[v]
            /\ pathfinder'[q].nodes[v].last_link.kind = "Rail"
            /\ ~FlexiRule(q, pathfinder'[q].nodes[v].last_station,
                          pathfinder'[q].nodes[v].last_link))
           => LET l == pathfinder'[q].nodes[v].last_link
                  u == pathfinder'[q].nodes[v].last_station
                  bu == pathfinder[q].nodes[u]
                  c == RefChange(q, u, bu.last_link, l)
              IN /\ tovisit'[q] = <<ToVisit(u, bu.time)>>
                 /\ l.dst = v
                 /\ pathfinder'[q].nodes[v].time =
                      bu.time + c + RefWait(bu.depart + c, l.depart) + l.time
      ]_vars

\* A station reached by Rail link out of a station itself reached by a
\* link prev satisfying P.
ReachedAfter(q, P(_, _)) ==
    \E v \in DOMAIN graph :
      LET b == pathfinder[q].nodes[v]
      IN /\ b.time # UINT_MAX
         /\ b.last_link.kind = "Rail"
         /\ P(pathfinder[q].nodes[b.last_station].last_link, b.last_link)

\* C7 witness: a finished query with a contingency and interchange times,
\* without flexi-depart, in which one station was reached by a first
\* boarding at the origin, one by staying on a service and one by changing
\* from one service to another.
C7_Witness ==
    \E q \in Queries :
      /\ Done(q)
      /\ req[q].contingency > 0 /\ req[q].flexi_depart = 0
      /\ \A s \in DOMAIN graph : graph[s].transfer_time > 0
      /\ ReachedAfter(q, LAMBDA prev, l : prev = Dummy)
      /\ ReachedAfter(q, LAMBDA prev, l :
                           prev.kind = "Rail" /\ prev.service = l.service)
      /\ ReachedAfter(q, LAMBDA prev, l :
                           prev.kind = "Rail" /\ prev.service # l.service)

RECURSIVE ChainTo(_, _, _)
\* The predecessor links leading to station v, in travel order, each with
\* the station it leaves.
ChainTo(pf, v, acc) ==
    IF pf.nodes[v].last_link = Dummy
      THEN acc
      ELSE ChainTo(pf, pf.nodes[v].last_station,
                   <<[src |-> pf.nodes[v].last_station,
                      link |-> pf.nodes[v].last_link]>> \o acc)

Chain(pf, v) == ChainTo(pf, v, <<>>)

RECURSIVE RefRide(_, _, _, _, _)
\* Seconds from boarding chain[1] at its departure until the end of the
\* chain's first i links.
RefRide(g, cont, chain, i, start) ==
    IF i = 1
      THEN chain[1].link.time
      ELSE RefArrive(g, start, cont, chain[i].src,
                     LinkLabel(chain[i - 1].link),
                     RefRide(g, cont, chain, i - 1, start), chain[i].link)

\* The chain to v starts with a Rail link taken under the flexi-depart rule.
FlexiStart(q, v) ==
    LET chain == Chain(pathfinder[q], v)
    IN chain # <<>> /\ FlexiRule(q, chain[1].src, chain[1].link)

\* C8: a Rail link leaving the origin at d with timetil(requested depart, d)
\* < flexi_depart is boarded with no wait, interchange time or contingency:
\* the time at its destination is the link's time r, every station reached
\* through it has its time counted from d, and a Journey whose first link
\* was taken under the rule reports depart = d and that time.
C8_FlexiDepart ==
    \A q \in Queries : \A v \in DOMAIN graph :
      FlexiStart(q, v) =>
        LET chain == Chain(pathfinder[q], v)
            d == chain[1].link.depart
            t == RefRide(graph, req[q].contingency, chain, Len(chain), d)
        IN /\ pathfinder[q].nodes[v].time = t
           /\ Done(q) =>
                \A i \in DOMAIN journeys[q] :
                  req[q].destinations[i] = v =>
                    /\ journeys[q][i].depart = d
                    /\ journeys[q][i].time = t

\* C8 witness: a returned journey of two links or more whose first link was
\* boarded under the rule some time after the requested departure, at an
\* origin where a change would have cost time.
C8_Witness ==
    \E q \in Queries : \E i \in DOMAIN journeys[q] :
      LET v == req[q].destinations[i]
          chain == Chain(pathfinder[q], v)
      IN /\ Done(q)
         /\ FlexiStart(q, v)
         /\ Len(chain) >= 2
         /\ chain[1].link.depart # req[q].depart
         /\ graph[req[q].origin].transfer_time + req[q].contingency > 0
         /\ journeys[q][i].depart = chain[1].link.depart

RECURSIVE RefCoalesce(_, _, _)
\* The chain's links from the i-th on, each maximal run of same-service
\* Rail links replaced by one link from the run's first departure to the
\* run's last destination.
RefCoalesce(chain, i, acc) ==
    IF i > Len(chain) THEN acc
    ELSE
      LET l == chain[i].link
          n == Len(acc)
      IN IF n > 0 /\ acc[n].kind = "Rail" /\ l.kind = "Rail"
              /\ acc[n].service = l.service
           THEN RefCoalesce(chain, i + 1,
                            [acc EXCEPT ![n].dst = l.dst,
                                        ![n].time = @ + l.time])
           ELSE RefCoalesce(chain, i + 1, Append(acc, l))

\* C9: the links of a returned Journey are the predecessor links in travel
\* order with each maximal run of same-service Rail links replaced by one
\* Rail link (depart of the earliest segment, sum of the times, dst of the
\* last segment); no two consecutive links are Rail links of one service
\* and Fixed links are kept as they are.
C9_Coalesced ==
    \A q \in Queries :
      Done(q) =>
        \A i \in DOMAIN journeys[q] :
          LET links == journeys[q][i].links
              chain == Chain(pathfinder[q], req[q].destinations[i])
          IN /\ links = RefCoalesce(chain, 1, <<>>)
             /\ \A k \in 1 .. Len(links) - 1 :
                  ~(links[k].kind = "Rail" /\ links[k + 1].kind = "Rail"
                      /\ links[k].service = links[k + 1].service)
             /\ Cardinality({k \in DOMAIN links : links[k].kind = "Fixed"})
                  = Cardinality({k \in DOMAIN chain : chain[k].link.kind = "Fixed"})

\* C9 witness: a returned journey in which a run of same-service segments
\* was merged and which also holds a Fixed link.
C9_Witness ==
    \E q \in Queries :
      /\ Done(q)
      /\ \E i \in DOMAIN journeys[q] :
           LET links == journeys[q][i].links
           IN /\ Len(links) < Len(Chain(pathfinder[q], req[q].destinations[i]))
              /\ \E k \in DOMAIN links : links[k].kind = "Fixed"

\* The arrival clock-times of service sv at station dst.
ServiceArrivals(sv, dst) ==
    {timetable[sv + 1].stops[j].arrival :
       j \in {k \in DOMAIN timetable[sv + 1].stops :
                timetable[sv + 1].stops[k].station = dst}}

\* C10: every Rail link of a returned Journey, merged from several stops or
\* not, satisfies the Rail link meaning: depart.add(time) is a clock-time at
\* which its service arrives at dst.
C10_RailLinkMeaning ==
    \A q \in Queries :
      Done(q) =>
        \A i \in DOMAIN journeys[q] : \A k \in DOMAIN journeys[q][i].links :
          LET l == journeys[q][i].links[k]
          IN l.kind = "Rail" =>
               (l.depart + l.time) % DAY \in ServiceArrivals(l.service, l.dst)

\* C11: for every destination passed to compute_journeys, reachable,
\* unreachable or equal to the origin, the origin field of the returned
\* Journey is the origin station of the query.
C11_JourneyOrigin ==
    \A q \in Queries :
      Done(q) =>
        \A i \in DOMAIN journeys[q] :
          journeys[q][i].origin = req[q].origin

\* The positions of the Rail links of a link list.
RailAt(links) == {k \in DOMAIN links : links[k].kind = "Rail"}

RECURSIVE FixedTimeBefore(_, _)
\* Sum of the times of the links before position k.
FixedTimeBefore(links, k) ==
    IF k <= 1 THEN 0 ELSE links[k - 1].time + FixedTimeBefore(links, k - 1)

\* C12: the depart of a Journey returned for a reached destination is the
\* depart of its first link when that link is Rail, the depart of its first
\* Rail link minus the times of the Fixed links before it (mod 86400) when
\* it starts with Fixed links, and the requested departure when it has only
\* Fixed links or none (destination = origin).
C12_JourneyDepart ==
    \A q \in Queries :
      Done(q) =>
        \A i \in DOMAIN journeys[q] :
          LET j == journeys[q][i]
              rails == RailAt(j.links)
              k == SetMin(rails)
          IN j.time # UINT_MAX =>
               IF rails = {}
                 THEN j.depart = req[q].depart
                 ELSE j.depart =
                        (j.links[k].depart - FixedTimeBefore(j.links, k)) % DAY

\* C12 witness: a query leaving at 23:50 that returns a journey of Fixed
\* links only, ending after midnight, and a journey of a Fixed link followed
\* by a Rail link.
C12_Witness ==
    \E q \in Queries :
      /\ Done(q)
      /\ req[q].depart = T(23, 50)
      /\ \E i \in DOMAIN journeys[q] :
           /\ journeys[q][i].links # <<>>
           /\ RailAt(journeys[q][i].links) = {}
           /\ pathfinder[q].nodes[req[q].destinations[i]].depart < req[q].depart
      /\ \E i \in DOMAIN journeys[q] :
           /\ Len(journeys[q][i].links) >= 2
           /\ journeys[q][i].links[1].kind = "Fixed"
           /\ journeys[q][i].links[2].kind = "Rail"

----------------------------------------------------------------------------
(* Startup: load_services builds the graph from the parsed inputs.         *)

\* Stop lists a feed can also yield: a service none of whose TIPLOCs is in
\* the registry, a service with one known TIPLOC, and a service whose
\* times are "2500" and "0030" (from_24h accepts hours up to 99).
ShortServicePool ==
    << << >>,
       << Stop(1, T(0, 10), T(0, 10)) >>,
       << Stop(0, 25 * 60 * 60, 25 * 60 * 60),
          Stop(1, T(0, 30), T(0, 30)) >> >>

BuildServicePool == ServicePool \o ShortServicePool

\* Fixed links a feed can also yield: BETWEEN and AND name one station.
BuildFixedLinkPool ==
    FixedLinkPool \o << [a |-> 1, b |-> 1, time |-> 4 * 60, kind |-> "Bus"] >>

BuildTimetables ==
    { MakeTimetable(Pick(BuildServicePool, idx, 1)) :
        idx \in { x \in SUBSET (1 .. Len(BuildServicePool)) :
                    Cardinality(x) <= MaxServices } }

\* Largest number of fixed links in the list the graph is built from.
MaxBuildFixedLinks == 2

\* The fixed-link lists the graph is built from: the links of the pool in
\* any order, each once at most.
BuildFixedLinkLists ==
    { [k \in DOMAIN order |-> BuildFixedLinkPool[order[k]]] :
        order \in UNION { { f \in [1 .. n -> 1 .. Len(BuildFixedLinkPool)] :
                              \A i, j \in 1 .. n : f[i] = f[j] => i = j } :
                          n \in 0 .. MaxBuildFixedLinks } }

\* The inputs are parsed, the graph is not built yet, no query runs.
InitBuild ==
    /\ stations \in Registries
    /\ fixedlinks \in BuildFixedLinkLists
    /\ timetable \in BuildTimetables
    /\ ValidInput(stations, fixedlinks, timetable)
    /\ graph = <<>>
    /\ req = <<>>
    /\ pathfinder = <<>>
    /\ pc = <<"build">>
    /\ tovisit = <<>>
    /\ journeys = <<>>
    /\ call = <<>>
    /\ ret = <<>>

\* TravelGraph::new returns the graph (where a timetil overflows: in a
\* build without overflow checks).
Build ==
    /\ pc = <<"build">>
    /\ TravelGraphNew(stations, fixedlinks, timetable) # Panic
    /\ graph' = TravelGraphNew(stations, fixedlinks, timetable)
    /\ pc' = <<"built">>
    /\ UNCHANGED <<stations, fixedlinks, timetable, req, pathfinder, tovisit,
                   journeys, call, ret>>

\* TravelGraph::new panics: on a service without stops, or on a timetil
\* that overflows in a build with overflow checks.  The process stops
\* without a graph.
BuildPanics ==
    /\ pc = <<"build">>
    /\ \/ TravelGraphNew(stations, fixedlinks, timetable) = Panic
       \/ TravelGraphNewOverflows(timetable)
    /\ pc' = <<"panic">>
    /\ UNCHANGED <<stations, fixedlinks, timetable, graph, req, pathfinder,
                   tovisit, journeys, call, ret>>

NextBuild == Build \/ BuildPanics

SpecBuild == InitBuild /\ [][NextBuild]_vars

Built == pc = <<"built">>

RECURSIVE Flatten(_)
\* The concatenation of a sequence of sequences.
Flatten(ss) ==
    IF ss = <<>> THEN <<>> ELSE ss[1] \o Flatten(Tail(ss))

\* The Fixed links the claim lists for station s, in input order.
RefFixed(fls, s) ==
    Flatten([i \in 1 .. Len(fls) |->
               (IF fls[i].a = s
                  THEN <<Fixed(fls[i].b, fls[i].time, fls[i].kind)>>
                  ELSE <<>>)
               \o (IF fls[i].b = s
                     THEN <<Fixed(fls[i].a, fls[i].time, fls[i].kind)>>
                     ELSE <<>>)])

\* The time the claim gives a Rail link: departure.timetil(arrival), which
\* for clocks below a day is the seconds from the departure to the next
\* time the clock shows the arrival.
RefTil(departure, arrival) ==
    IF departure \in 0 .. DAY - 1 /\ arrival \in 0 .. DAY - 1
      THEN RefWait(departure, arrival)
      ELSE timetil(departure, arrival)

\* The Rail links the claim lists for station s: services in timetable
\* order, consecutive stop pairs in stop order.
RefRail(services, s) ==
    Flatten([i \in 1 .. Len(services) |->
               LET stops == services[i].stops
               IN Flatten([j \in 1 .. Len(stops) - 1 |->
                             IF stops[j].station = s
                               THEN <<Rail(stops[j + 1].station,
                                           services[i].id,
                                           stops[j].departure,
                                           RefTil(stops[j].departure,
                                                  stops[j + 1].arrival))>>
                               ELSE <<>>])])

\* How many links of the graph g satisfy P.
CountLinks(g, P(_)) ==
    Cardinality(UNION { { <<s, k>> : k \in { j \in DOMAIN g[s].links :
                                               P(g[s].links[j]) } } :
                        s \in DOMAIN g })

\* C13: the graph TravelGraph::new returns has one node per station, with
\* the station's minimum interchange time as transfer_time and a link list
\* that is the Fixed links touching the station in input order followed by
\* the Rail links of the consecutive stop pairs leaving it, services in
\* timetable order; a service with n stops contributes n - 1 Rail links.
C13_GraphBuilt ==
    Built =>
      /\ DOMAIN graph = StationIds(Len(stations))
      /\ \A s \in DOMAIN graph :
           /\ graph[s].transfer_time = stations[s + 1]
           /\ graph[s].links = RefFixed(fixedlinks, s) \o RefRail(timetable, s)
      /\ \A i \in DOMAIN timetable :
           CountLinks(graph, LAMBDA l : l.kind = "Rail"
                                          /\ l.service = timetable[i].id)
             = Len(timetable[i].stops) - 1

\* C13 witness: a built graph of two services or more and two fixed links,
\* in which one station has two Fixed links to different stations, the
\* one to the station of the higher id first as in the input, followed by
\* Rail links of two services, and one service leaves a station twice.
C13_Witness ==
    /\ Built
    /\ Len(timetable) >= 2 /\ Len(fixedlinks) >= 2
    /\ \E s \in DOMAIN graph :
         LET links == graph[s].links
         IN /\ Len(links) >= 4
            /\ links[1].kind = "Fixed" /\ links[2].kind = "Fixed"
            /\ links[1].dst > links[2].dst
            /\ fixedlinks[1].time = links[1].time
            /\ fixedlinks[2].time = links[2].time
            /\ fixedlinks[1].time # fixedlinks[2].time
            /\ \E j, k \in DOMAIN links :
                 /\ j < k /\ links[j].kind = "Rail" /\ links[k].kind = "Rail"
                 /\ links[j].service < links[k].service
    /\ \E s \in DOMAIN graph : \E j, k \in DOMAIN graph[s].links :
         /\ j < k
         /\ graph[s].links[j].kind = "Rail" /\ graph[s].links[k].kind = "Rail"
         /\ graph[s].links[j].service = graph[s].links[k].service

\* C14: a service with fewer than two stops is skipped by the builder:
\* TravelGraph::new completes normally and the graph has no Rail link of
\* that service.
C14_ShortServiceSkipped ==
    /\ pc # <<"panic">>
    /\ Built =>
         \A i \in DOMAIN timetable :
           Len(timetable[i].stops) < 2 =>
             CountLinks(graph, LAMBDA l : l.kind = "Rail"
                                            /\ l.service = timetable[i].id) = 0

\* How many entries of the sequence seq satisfy P.
CountIn(seq, P(_)) == Cardinality({k \in DOMAIN seq : P(seq[k])})

\* C15: every fixed link of the input, a link from a station to itself
\* included, contributes two directed Fixed edges and appears once in the
\* list of each endpoint: the list of station s holds a Fixed edge to d
\* with a time and kind as often as the input holds a link between s and d
\* with that time and kind.
C15_FixedLinkOncePerEndpoint ==
    Built =>
      /\ CountLinks(graph, LAMBDA l : l.kind = "Fixed") = 2 * Len(fixedlinks)
      /\ \A s \in DOMAIN graph : \A k \in DOMAIN graph[s].links :
           LET e == graph[s].links[k]
           IN e.kind = "Fixed" =>
                CountIn(graph[s].links, LAMBDA l : l = e)
                  = CountIn(fixedlinks,
                            LAMBDA f : /\ f.time = e.time /\ f.kind = e.fkind
                                       /\ {f.a, f.b} = {s, e.dst})

----------------------------------------------------------------------------
(* Several calls of compute_journeys over one graph.                       *)

\* Largest number of services in the timetable the calls share.
MaxSharedServices == 2

\* The arguments of the concurrent calls: any origin, leaving at midnight
\* with a contingency of four minutes.
SharedRequests(n) ==
    [depart : {T(0, 0)}, origin : StationIds(n),
     destinations : { [i \in 1 .. n |-> i - 1] },
     contingency : {240}, flexi_depart : {0}]

\* The registry of the shared graph.
SharedRegistries == { <<120, 120, 120>> }

\* Two calls, each with its own arguments, over one graph.
InitShared ==
    /\ stations \in SharedRegistries
    /\ fixedlinks \in FixedLinkLists
    /\ timetable \in {tt \in Timetables : Len(tt) <= MaxSharedServices}
    /\ ValidInput(stations, fixedlinks, timetable)
    /\ graph = TravelGraphNew(stations, fixedlinks, timetable)
    /\ req \in [{1, 2} -> SharedRequests(Len(stations))]
    /\ pathfinder = [q \in {1, 2} |->
                       TimeDijkstrasNew(Len(stations), req[q].contingency)]
    /\ pc = [q \in {1, 2} |-> "new"]
    /\ tovisit = [q \in {1, 2} |-> <<>>]
    /\ journeys = [q \in {1, 2} |-> <<>>]
    /\ call = <<>>
    /\ ret = <<>>

\* The steps of the calls interleave in any order.
SpecShared == InitShared /\ [][Next]_vars

RECURSIVE PerformLoop(_, _)
\* perform's loop run until the queue is empty.
PerformLoop(self, g) ==
    IF self.visitq = {} THEN [pf |-> self, pc |-> "done"]
    ELSE LET tv == CHOOSE e \in self.visitq : IsFirst(e, self.visitq)
             r == PerformIter([self EXCEPT !.visitq = @ \ {tv}], g, tv)
         IN IF r.pc = "panic" THEN r ELSE PerformLoop(r.pf, g)

\* TravelGraph::compute_journeys run as one call on its own.
compute_journeys(g, depart, origin, destinations, contingency, flexi_depart) ==
    LET r == PerformLoop(
               PerformBegin(TimeDijkstrasNew(Cardinality(DOMAIN g), contingency),
                            origin, depart, flexi_depart), g)
    IN IF r.pc = "panic" THEN Panic
       ELSE [i \in 1 .. Len(destinations) |->
               best_journey(r.pf, destinations[i])]

\* C16: queries never change the graph and share no query state: however
\* the steps of the calls interleave, the graph stays the graph that was
\* built, a step of one call leaves the state of the others as it was, and
\* each call returns the journeys it returns when run alone.
C16_Isolated ==
    /\ [](\A q \in Queries :
            Done(q) =>
              journeys[q] = compute_journeys(graph, req[q].depart,
                              req[q].origin, req[q].destinations,
                              req[q].contingency, req[q].flexi_depart))
    /\ [][/\ graph' = graph
          /\ \A q, o \in Queries :
               (q # o /\ pc'[q] # pc[q]) =>
                 <<pathfinder'[o], pc'[o], tovisit'[o], journeys'[o]>>
                   = <<pathfinder[o], pc[o], tovisit[o], journeys[o]>>]_vars

\* C16 witness: one call has returned journeys reaching another station
\* while a call with other arguments is in the middle of its loop.
C16_Witness ==
    \E q, o \in Queries :
      /\ q # o /\ req[q] # req[o]
      /\ Done(q)
      /\ \E i \in DOMAIN journeys[q] : journeys[q][i].links # <<>>
      /\ pc[o] = "loop" /\ tovisit[o] # <<>> /\ pathfinder[o].visitq # {}

----------------------------------------------------------------------------
(* RailTime called on its own.                                             *)

\* The characters of the strings: ASCII digits, a decimal digit outside
\* ASCII (ARABIC-INDIC DIGIT THREE, two bytes in UTF-8), and others.
AsciiDigits == {"0", "1", "2", "3", "4", "5", "6", "7", "8", "9"}

ArabicIndicThree == "U+0663"

\* \d of the regex crate: any Unicode decimal digit.
IsDigit(c) == c \in AsciiDigits \cup {ArabicIndicThree}

\* str::parse::<u32> of a string of two ASCII digits.
ParseTwo(c1, c2) ==
    LET v(c) == CHOOSE n \in 0 .. 9 : ToString(n) = c
    IN 10 * v(c1) + v(c2)

\* TIME_FORMAT_REGEX.is_match: ^\d{2}\d{2}.?$ ; `.` matches no line feed.
TimeFormatMatch(timestr) ==
    /\ Len(timestr) \in {4, 5}
    /\ \A i \in 1 .. 4 : IsDigit(timestr[i])
    /\ Len(timestr) = 5 => timestr[5] # "\n"

Some(v) == <<"Some", v>>

None == <<"None">>

\* RailTime::from_24h.  The slices [0..2] and [2..4] are byte ranges and
\* parse::<u32> takes ASCII digits only, so a digit outside ASCII among the
\* first four characters makes a slice or an unwrap panic.
from_24h(timestr) ==
    IF TimeFormatMatch(timestr)
      THEN IF \E i \in 1 .. 4 : timestr[i] \notin AsciiDigits
             THEN Panic
             ELSE Some(ParseTwo(timestr[1], timestr[2]) * 60 * 60
                       + ParseTwo(timestr[3], timestr[4]) * 60)
      ELSE None

\* The outcomes of a call that computes v: v, or a panic where the
\* arithmetic overflows and the build checks it.
Outcomes(overflows, v) ==
    IF overflows THEN {Panic, <<"ret", v>>} ELSE {<<"ret", v>>}

Returned(v) == <<"ret", v>>

\* The strings given to from_24h.
TimeStrings ==
    { <<"0", "0", "2", "5">>, <<"2", "3", "5", "9">>, <<"1", "3", "2", "5">>,
      <<"0", "0", "0", "0">>, <<"1", "0", "5", "2", "H">>,
      <<"2", "4", "0", "0">>, <<"2", "5", "0", "0">>, <<"0", "0", "6", "0">>,
      <<"9", "9", "9", "9">>, <<"1", "2", "3">>, <<"1", "2", "3", "4", "\n">>,
      <<"1", "2", "a", "4">>, <<"1", "2", "3", "4", "5", "6">>, <<>>,
      <<"1", "2", "3", ArabicIndicThree>> }

\* The RailTime values the calls start from: those from_24h returns.
TimeValues == { from_24h(x)[2] : x \in {y \in TimeStrings :
                                          from_24h(y) \notin {None, Panic}} }

\* Numbers of seconds given to add and sub.
SecsValues == {0, 1, 35 * 60, DAY - 1, DAY, DAY + 1, 90000, UINT_MAX}

\* Hours and minutes given to RailTime::new: 1193047 * 3600 and
\* 71582789 * 60 are the first products above u32::MAX.
Hours == {0, 13, 23, 24, 25, 1193046, 1193047, UINT_MAX}

Mins == {0, 25, 59, 60, 71582788, 71582789}

TimeCalls ==
    [op : {"new"}, hours : Hours, mins : Mins]
      \cup [op : {"from_24h"}, timestr : TimeStrings]
      \cup [op : {"timetil"}, self : TimeValues, other : TimeValues]
      \cup [op : {"add", "sub", "timetil_add"}, self : TimeValues,
            secs : SecsValues]

\* A call is about to be made; no graph, no query.
InitTime ==
    /\ call \in TimeCalls
    /\ ret = <<>>
    /\ stations = <<>> /\ fixedlinks = <<>> /\ timetable = <<>>
    /\ graph = <<>> /\ req = <<>> /\ pathfinder = <<>> /\ pc = <<>>
    /\ tovisit = <<>> /\ journeys = <<>>

\* The call returns r.
Returns(op, r) ==
    /\ ret = <<>>
    /\ call.op = op
    /\ ret' = r
    /\ UNCHANGED <<stations, fixedlinks, timetable, graph, req, pathfinder,
                   pc, tovisit, journeys, call>>

TimeNew ==
    /\ call.op = "new"
    /\ \E r \in Outcomes(newOverflows(call.hours, call.mins),
                         RailTimeNew(call.hours, call.mins)) :
         Returns("new", r)

TimeFrom24h ==
    call.op = "from_24h" /\ Returns("from_24h", from_24h(call.timestr))

TimeTimetil ==
    /\ call.op = "timetil"
    /\ \E r \in Outcomes(timetilOverflows(call.self, call.other),
                         timetil(call.self, call.other)) :
         Returns("timetil", r)

TimeAdd ==
    /\ call.op = "add"
    /\ \E r \in Outcomes(addOverflows(call.self, call.secs),
                         add(call.self, call.secs)) :
         Returns("add", r)

TimeSub ==
    /\ call.op = "sub"
    /\ \E r \in Outcomes(subOverflows(call.self, call.secs),
                         sub(call.self, call.secs)) :
         Returns("sub", r)

\* t.timetil(&t.add(k))
TimeTimetilAdd ==
    /\ call.op = "timetil_add"
    /\ \E r \in Outcomes(\/ addOverflows(call.self, call.secs)
                         \/ timetilOverflows(call.self,
                                              add(call.self, call.secs)),
                         timetil(call.self, add(call.self, call.secs))) :
         Returns("timetil_add", r)

NextTime ==
    \/ TimeNew
    \/ TimeFrom24h
    \/ TimeTimetil
    \/ TimeAdd
    \/ TimeSub
    \/ TimeTimetilAdd

SpecTime == InitTime /\ [][NextTime]_vars

\* C17: for every RailTime t and every k with 0 <= k < 86400,
\* t.timetil(t.add(k)) returns k.
C17_TimetilAdd ==
    (ret # <<>> /\ call.op = "timetil_add"
       /\ 0 <= call.secs /\ call.secs < DAY)
      => ret = Returned(call.secs)

\* C18 as stated: timetil wraps to the next day whenever other <= self, so
\* that a time equal to self is a full day away.
C18_WrapsWhenNotAfter ==
    (ret # <<>> /\ call.op = "timetil")
      => ret = Returned(IF call.other <= call.self
                          THEN call.other + DAY - call.self
                          ELSE call.other - call.self)

\* C18, amended: for clocks below 86400 timetil returns the seconds from
\* self to other, between 0 and 86399: other - self when other >= self (0
\* for a time equal to self), and other + 86400 - self, the next day, only
\* when other < self.
C18_WrapsWhenBefore ==
    (ret # <<>> /\ call.op = "timetil"
       /\ call.self < DAY /\ call.other < DAY)
      => /\ ret = Returned(IF call.other < call.self
                             THEN call.other + DAY - call.self
                             ELSE call.other - call.self)
         /\ ret[2] \in 0 .. DAY - 1

\* C18 witness: timetil has returned 0 for a time equal to self.
C18_Witness ==
    /\ ret = Returned(0)
    /\ call.op = "timetil"
    /\ call.self = call.other /\ call.self \in 1 .. DAY - 1

\* C19: every RailTime holds a number of seconds in [0, 86400): the result
\* of RailTime::new, of from_24h on every string it accepts, and of add and
\* sub for any number of seconds; sub does not underflow and is subtraction
\* modulo 86400.
C19_RailTimeInRange ==
    ret # <<>> =>
      /\ call.op \in {"new", "add", "sub"} =>
           \E v \in 0 .. DAY - 1 : ret = Returned(v)
      /\ call.op = "from_24h" =>
           IF TimeFormatMatch(call.timestr)
             THEN \E v \in 0 .. DAY - 1 : ret = Some(v)
             ELSE ret = None
      /\ call.op = "sub" =>
           ret = Returned((call.self - U32Mod(call.secs, DAY)) % DAY)

----------------------------------------------------------------------------
(* stations: the registry read from the station feed (MSN file).           *)

\* A station as from_msn_a_record builds it from a station record.
Station(name, tiploc, crs, min_change_time, gref_east, gref_north) ==
    [id |-> 0, tiplocs |-> <<tiploc>>, crs_code |-> crs, names |-> <<name>>,
     min_change_time |-> min_change_time,
     gref_east |-> gref_east, gref_north |-> gref_north]

\* Vec::contains
Contains(seq, x) == \E k \in DOMAIN seq : seq[k] = x

RECURSIVE PushNew(_, _, _)
\* The loop of update_from_other: each name of other, from the i-th on,
\* is pushed unless the names hold it already.
PushNew(names, other, i) ==
    IF i > Len(other) THEN names
    ELSE PushNew(IF Contains(names, other[i]) THEN names
                 ELSE Append(names, other[i]),
                 other, i + 1)

\* Mutant of update_from_other: the names are appended without the
\* contains test.
update_from_other_all(self, other) ==
    [self EXCEPT !.names = @ \o other.names,
                 !.tiplocs = @ \o other.tiplocs]

\* Station::update_from_other: the assertion on the CRS codes fails for
\* stations of different codes.
update_from_other(self, other) ==
    IF self.crs_code # other.crs_code THEN Panic
    ELSE [self EXCEPT !.names = PushNew(@, other.names, 1),
                      !.tiplocs = @ \o other.tiplocs]

\* HashMap::insert
MapInsert(map, key, value) ==
    [k \in DOMAIN map \cup {key} |-> IF k = key THEN value ELSE map[k]]

RECURSIVE insert_for(_, _, _)
\* insert_for(map, names, station): the names are inserted in order.
insert_for(map, names, station) ==
    IF names = <<>> THEN map
    ELSE insert_for(MapInsert(map, Head(names), station), Tail(names), station)

\* The empty StationList read_msn_file starts from.
EmptyStationList ==
    [stations |-> <<>>, by_tiploc |-> <<>>, by_name |-> <<>>, by_crs |-> <<>>]

Ok(v) == <<"Ok", v>>

Err(kind) == <<"Err", kind>>

\* The station record branch of read_msn_file for a parsed record s: merge
\* into the station of the same CRS code, or push a new station.  Station
\* ids are indices from 0; sequences here are indexed from 1.
AddStationRecord(self, s) ==
    IF s.crs_code \in DOMAIN self.by_crs
      THEN LET station == self.by_crs[s.crs_code]
           IN [self EXCEPT
                 !.stations[station + 1] = update_from_other(@, s),
                 !.by_tiploc = insert_for(@, s.tiplocs, station),
                 !.by_name = insert_for(@, s.names, station)]
      ELSE LET next_id == Len(self.stations)
           IN [self EXCEPT
                 !.stations = Append(@, [s EXCEPT !.id = next_id]),
                 !.by_crs = MapInsert(@, s.crs_code, next_id),
                 !.by_name = insert_for(@, s.names, next_id),
                 !.by_tiploc = insert_for(@, s.tiplocs, next_id)]

\* The alias record branch of read_msn_file.
AddAliasRecord(self, r) ==
    IF r.name \in DOMAIN self.by_name
      THEN LET id == self.by_name[r.name]
           IN Ok([self EXCEPT
                    !.by_name = MapInsert(@, r.alias, id),
                    !.stations[id + 1].names = Append(@, r.alias)])
      ELSE Err("InvalidData")

\* A line of a feed is a record of its length in bytes (len), the byte
\* offsets that fall inside a character of several bytes (inner), and
\* the contents of its fields.

\* extract_record_field: an error when the field ends after the record;
\* otherwise the slice rec[offset..offset+len], which panics when it
\* starts or ends inside a character.
extract_record_field(rec, offset, len) ==
    IF offset + len > rec.len THEN Err("InvalidData")
    ELSE IF {offset, offset + len} \cap rec.inner # {} THEN Panic
    ELSE Ok(<<offset, len>>)

RECURSIVE ReadRecord(_, _)
\* The read function of make_record_type!: the fields are extracted in
\* the order of their declaration, and the first error or panic ends the
\* read.
ReadRecord(rec, fields) ==
    IF fields = <<>> THEN Ok(rec)
    ELSE LET f == extract_record_field(rec, Head(fields)[1], Head(fields)[2])
         IN IF f = Panic \/ f[1] = "Err" THEN f
            ELSE ReadRecord(rec, Tail(fields))

\* The fields of a station record, as offset and length.
MsnStationRecord ==
    << <<5, 26>>, <<35, 1>>, <<36, 7>>, <<43, 3>>, <<49, 3>>, <<53, 4>>,
       <<59, 4>>, <<63, 2>> >>

\* The fields of an alias record.
MsnAliasRecord == << <<5, 26>>, <<36, 26>> >>

\* parse_or_invalid on a field given by what str::parse makes of it: the
\* number (Some), or an error when the field holds no number (None).
parse_or_invalid(parsed) ==
    IF parsed = None THEN Err("InvalidData") ELSE Ok(parsed[2])

\* Station::from_msn_a_record
from_msn_a_record(line) ==
    LET record == ReadRecord(line, MsnStationRecord)
        min_change_time == parse_or_invalid(line.min_change_time)
        gref_east == parse_or_invalid(line.os_gref_east)
        gref_north == parse_or_invalid(line.os_gref_north)
    IN IF record = Panic \/ record[1] = "Err" THEN record
       ELSE IF min_change_time[1] = "Err" THEN min_change_time
       ELSE IF gref_east[1] = "Err" THEN gref_east
       ELSE IF gref_north[1] = "Err" THEN gref_north
       ELSE Ok(Station(line.name, line.tiploc, line.crs, min_change_time[2],
                       gref_east[2], gref_north[2]))

RECURSIVE ReadMsnLines(_, _, _, _)
\* The loop of read_msn_file over the lines from the i-th on.  A line is
\* a station record (first character A), an alias record (first character
\* L) or any other line.  The first station record is skipped unread.
ReadMsnLines(self, lines, i, a_rec_head) ==
    IF i > Len(lines) THEN Ok(self)
    ELSE LET line == lines[i]
         IN IF line.kind = "A"
              THEN IF a_rec_head
                     THEN ReadMsnLines(self, lines, i + 1, FALSE)
                   ELSE LET rs == from_msn_a_record(line)
                        IN IF rs = Panic \/ rs[1] = "Err" THEN rs
                           ELSE ReadMsnLines(AddStationRecord(self, rs[2]),
                                             lines, i + 1, a_rec_head)
            ELSE IF line.kind = "L"
              THEN LET rs == ReadRecord(line, MsnAliasRecord)
                   IN IF rs = Panic \/ rs[1] = "Err" THEN rs
                      ELSE LET r == AddAliasRecord(self, line)
                           IN IF r[1] = "Err" THEN r
                              ELSE ReadMsnLines(r[2], lines, i + 1,
                                                a_rec_head)
            ELSE ReadMsnLines(self, lines, i + 1, a_rec_head)

\* StationList::read_msn_file
read_msn_file(lines) == ReadMsnLines(EmptyStationList, lines, 1, TRUE)

\* Largest number of lines in a station feed.
MaxLines == 4

\* A well-formed station record line: 80 bytes, one to a character.
ALine(name, tiploc, crs, min_change_time, gref_east, gref_north) ==
    [kind |-> "A", len |-> 80, inner |-> {}, name |-> name,
     tiploc |-> tiploc, crs |-> crs,
     min_change_time |-> Some(min_change_time),
     os_gref_east |-> Some(gref_east), os_gref_north |-> Some(gref_north)]

\* A well-formed alias record line: 80 bytes, one to a character.
LLine(name, alias) ==
    [kind |-> "L", len |-> 80, inner |-> {}, name |-> name,
     alias |-> alias]

\* The byte offsets inside a character, for a line that holds twelve
\* characters of two bytes from byte 5 and one of three bytes after them
\* (bytes 29 to 31).
SplitName == {6 + 2 * k : k \in 0 .. 11} \cup {30, 31}

\* The lines of the feeds: station records (three CRS codes, two of them
\* with a station of the same name; three records of CMB with two names,
\* three TIPLOCs and different interchange times and ordinates), alias
\* records of a known and of an unknown name, a station record too short
\* to parse, a station record whose interchange time is no number, a
\* station record and an alias record whose name field ends inside a
\* character, and a comment line.
MsnLinePool ==
    { ALine("ABBEY WOOD", "ABWD", "ABW", 4, 5473, 1790),
      ALine("ABBEY WOOD", "ABWDXR", "ABX", 4, 5473, 1790),
      ALine("CAMBRIDGE NORTH", "CAMBNTH", "CMB", 5, 5475, 2607),
      ALine("CAMBRIDGE NORTH Stand", "CMBNTST", "CMB", 3, 5476, 2608),
      ALine("CAMBRIDGE NORTH", "CMBNTH2", "CMB", 6, 5477, 2609),
      LLine("CAMBRIDGE NORTH", "CAMB N"),
      LLine("NOWHERE", "NW"),
      [kind |-> "A", len |-> 17, inner |-> {}],
      [ALine("ABBEY WOOD", "ABWD", "ABW", 4, 5473, 1790)
         EXCEPT !.min_change_time = None],
      [kind |-> "A", len |-> 80, inner |-> SplitName],
      [kind |-> "L", len |-> 80, inner |-> SplitName],
      [kind |-> "/", len |-> 80, inner |-> {}] }

MsnFeeds == UNION { [1 .. n -> MsnLinePool] : n \in 0 .. MaxLines }

\* read_msn_file is about to be called on a feed.
InitMsn ==
    /\ call \in [op : {"read_msn_file"}, lines : MsnFeeds]
    /\ ret = <<>>
    /\ stations = <<>> /\ fixedlinks = <<>> /\ timetable = <<>>
    /\ graph = <<>> /\ req = <<>> /\ pathfinder = <<>> /\ pc = <<>>
    /\ tovisit = <<>> /\ journeys = <<>>

\* read_msn_file returns the registry.
MsnReadOk ==
    /\ read_msn_file(call.lines)[1] = "Ok"
    /\ Returns("read_msn_file", read_msn_file(call.lines))

\* read_msn_file returns an error.
MsnReadErr ==
    /\ read_msn_file(call.lines)[1] = "Err"
    /\ Returns("read_msn_file", read_msn_file(call.lines))

\* read_msn_file panics in the slice of a field.
MsnReadPanics ==
    /\ read_msn_file(call.lines) = Panic
    /\ Returns("read_msn_file", Panic)

NextMsn == MsnReadOk \/ MsnReadErr \/ MsnReadPanics

SpecMsn == InitMsn /\ [][NextMsn]_vars

\* The station records of a feed that are not its header, in order.
StationRecords(lines) ==
    LET isA(k) == lines[k].kind = "A"
        head == {k \in DOMAIN lines : isA(k) /\ \A j \in 1 .. k - 1 : ~isA(j)}
        station(line) ==
            Station(line.name, line.tiploc, line.crs,
                    line.min_change_time[2], line.os_gref_east[2],
                    line.os_gref_north[2])
    IN SelectSeq([k \in DOMAIN lines |->
                    IF isA(k) /\ k \notin head THEN station(lines[k])
                    ELSE <<>>],
                 LAMBDA x : x # <<>>)

RECURSIVE FirstSeen(_)
\* A sequence without the repetitions of its entries.
FirstSeen(seq) ==
    IF seq = <<>> THEN <<>>
    ELSE LET init == FirstSeen(SubSeq(seq, 1, Len(seq) - 1))
             last == seq[Len(seq)]
         IN IF Contains(init, last) THEN init ELSE Append(init, last)

\* C20: when a feed holds several station records of one CRS code,
\* read_msn_file produces one station for that code: its TIPLOCs are the
\* records' TIPLOCs in record order, its ordinates and interchange time
\* those of the first record, its names (where no alias record names the
\* station) the records' names without repetition in first-seen order;
\* there are as many stations as distinct CRS codes among the station
\* records after the header.
C20_MergedByCrs ==
    (ret # <<>> /\ call.op = "read_msn_file" /\ ret[1] = "Ok") =>
      LET list == ret[2].stations
          recs == StationRecords(call.lines)
          of(crs) == SelectSeq(recs, LAMBDA r : r.crs_code = crs)
          aliased(st) == \E k \in DOMAIN call.lines :
                           /\ call.lines[k].kind = "L"
                           /\ Contains(st.names, call.lines[k].name)
      IN /\ Len(list) = Cardinality({recs[k].crs_code : k \in DOMAIN recs})
         /\ \A i, j \in DOMAIN list :
              list[i].crs_code = list[j].crs_code => i = j
         /\ \A i \in DOMAIN list :
              LET st == list[i]
                  mine == of(st.crs_code)
              IN /\ mine # <<>>
                 /\ st.tiplocs = [k \in DOMAIN mine |-> mine[k].tiplocs[1]]
                 /\ st.min_change_time = mine[1].min_change_time
                 /\ st.gref_east = mine[1].gref_east
                 /\ st.gref_north = mine[1].gref_north
                 /\ ~aliased(st) =>
                      st.names = FirstSeen([k \in DOMAIN mine |->
                                              mine[k].names[1]])

\* C20 witness: a registry read from a feed with three station records of
\* one CRS code, two of them of the same name, and no alias record.
C20_Witness ==
    /\ ret # <<>> /\ call.op = "read_msn_file" /\ ret[1] = "Ok"
    /\ \A k \in DOMAIN call.lines : call.lines[k].kind # "L"
    /\ \E i \in DOMAIN ret[2].stations :
         /\ Len(ret[2].stations[i].tiplocs) = 3
         /\ Len(ret[2].stations[i].names) = 2

\* C21: in the registry read_msn_file returns, every station's id is its
\* index, CRS codes are unique, and every name (aliases included) and
\* every TIPLOC belongs to one station only: the by-name and by-TIPLOC
\* lookups of each entry of s.names and s.tiplocs return s.
C21_RegistryLookups ==
    (ret # <<>> /\ call.op = "read_msn_file" /\ ret[1] = "Ok") =>
      LET sl == ret[2]
          list == sl.stations
      IN /\ \A i \in DOMAIN list : list[i].id = i - 1
         /\ \A i, j \in DOMAIN list :
              list[i].crs_code = list[j].crs_code => i = j
         /\ \A i \in DOMAIN list :
              /\ list[i].crs_code \in DOMAIN sl.by_crs
              /\ sl.by_crs[list[i].crs_code] = list[i].id
              /\ \A k \in DOMAIN list[i].names :
                   /\ list[i].names[k] \in DOMAIN sl.by_name
                   /\ sl.by_name[list[i].names[k]] = list[i].id
              /\ \A k \in DOMAIN list[i].tiplocs :
                   /\ list[i].tiplocs[k] \in DOMAIN sl.by_tiploc
                   /\ sl.by_tiploc[list[i].tiplocs[k]] = list[i].id

----------------------------------------------------------------------------
(* timetable: the services read from the schedule feed (MCA file).         *)

\* StationList::get_by_tiploc, giving the station's id.
get_by_tiploc(self, name) ==
    IF name \in DOMAIN self.by_tiploc THEN Some(self.by_tiploc[name]) ELSE None

\* Option::unwrap of a RailTime::from_24h result panics on None.
Unwraps(timestr) == from_24h(timestr) \notin {None, Panic}

\* The fields of a schedule record, as offset and length.
McaScheduleRecord ==
    << <<2, 1>>, <<3, 6>>, <<21, 7>>, <<28, 1>>, <<50, 3>> >>

\* The fields of an origin record.
McaOriginStationRecord == << <<2, 7>>, <<10, 5>>, <<15, 4>>, <<19, 3>> >>

\* The fields of an intermediate record.
McaIntermediateStationRecord ==
    << <<2, 7>>, <<9, 1>>, <<10, 5>>, <<15, 5>>, <<20, 5>>, <<25, 4>>,
       <<29, 4>>, <<33, 3>> >>

\* The fields of a terminal record.
McaTerminalStationRecord ==
    << <<2, 7>>, <<9, 1>>, <<10, 5>>, <<15, 4>>, <<19, 3>> >>

\* The fields of the record a line of one of the four types is read as.
McaRecord(kind) ==
    CASE kind = "BS" -> McaScheduleRecord
      [] kind = "LO" -> McaOriginStationRecord
      [] kind = "LI" -> McaIntermediateStationRecord
      [] kind = "LT" -> McaTerminalStationRecord

\* One pass of the loop of read_service_entry, on the line at position
\* pos with the service read so far.  The length of a line counts its
\* line end; kind is what the first two bytes of the line hold.  The
\* result is the service, with the position after its LT line; or none at
\* the end of the input or on a line of at most two bytes outside a
\* service, with that position; or an error; or a panic: of the slice
\* line[0..2] when byte 2 is inside a character, of the slice of a field,
\* of from_24h, or of the unwrap of a missing time.
RECURSIVE ReadServiceLines(_, _, _, _, _)
ReadServiceLines(registry, lines, pos, svc, has_record) ==
    IF pos > Len(lines) \/ lines[pos].len <= 2
      THEN IF has_record THEN [result |-> Err("UnexpectedEof"), pos |-> pos + 1]
           ELSE [result |-> Ok(None), pos |-> pos + 1]
    ELSE
      LET line == lines[pos]
          station == get_by_tiploc(registry, line.tiploc)
          r == ReadRecord(line, McaRecord(line.kind))
      IN IF 2 \in line.inner
           THEN [result |-> Panic, pos |-> pos + 1]
         ELSE IF line.kind \in {"BS", "LO", "LI", "LT"}
                 /\ (r = Panic \/ r[1] = "Err")
           THEN [result |-> r, pos |-> pos + 1]
         ELSE IF line.kind = "BS"
           THEN ReadServiceLines(registry, lines, pos + 1,
                  [svc EXCEPT !.train_uid = line.train_uid], TRUE)
         ELSE IF line.kind = "LO"
           THEN IF station = None
                  THEN ReadServiceLines(registry, lines, pos + 1, svc,
                                        has_record)
                ELSE IF ~Unwraps(line.public_departure)
                  THEN [result |-> Panic, pos |-> pos + 1]
                ELSE ReadServiceLines(registry, lines, pos + 1,
                       [svc EXCEPT !.stops =
                          Append(@, Stop(station[2],
                                         from_24h(line.public_departure)[2],
                                         from_24h(line.public_departure)[2]))],
                       has_record)
         ELSE IF line.kind = "LI"
           THEN IF station = None
                  THEN ReadServiceLines(registry, lines, pos + 1, svc,
                                        has_record)
                ELSE IF Panic \in {from_24h(line.scheduled_pass),
                                   from_24h(line.public_arrival),
                                   from_24h(line.public_departure)}
                  THEN [result |-> Panic, pos |-> pos + 1]
                ELSE IF from_24h(line.scheduled_pass)[1] = "Some"
                  THEN ReadServiceLines(registry, lines, pos + 1, svc,
                                        has_record)
                ELSE IF ~Unwraps(line.public_arrival)
                        \/ ~Unwraps(line.public_departure)
                  THEN [result |-> Panic, pos |-> pos + 1]
                ELSE ReadServiceLines(registry, lines, pos + 1,
                       [svc EXCEPT !.stops =
                          Append(@, Stop(station[2],
                                         from_24h(line.public_arrival)[2],
                                         from_24h(line.public_departure)[2]))],
                       has_record)
         ELSE IF line.kind = "LT"
           THEN IF station # None /\ ~Unwraps(line.public_arrival)
                  THEN [result |-> Panic, pos |-> pos + 1]
                ELSE [result |->
                        Ok(Some(IF station = None THEN svc
                                ELSE [svc EXCEPT !.stops =
                                   Append(@, Stop(station[2],
                                             from_24h(line.public_arrival)[2],
                                             from_24h(line.public_arrival)[2]))])),
                      pos |-> pos + 1]
         ELSE ReadServiceLines(registry, lines, pos + 1, svc, has_record)

\* Service::read_service_entry, reading from position pos.
read_service_entry(registry, lines, pos) ==
    ReadServiceLines(registry, lines, pos,
                     [id |-> 0, train_uid |-> "", stops |-> <<>>], FALSE)

RECURSIVE ReadMcaServices(_, _, _, _)
\* The loop of read_mca_file: services are read and numbered until
\* read_service_entry gives none.
ReadMcaServices(registry, lines, pos, services) ==
    LET r == read_service_entry(registry, lines, pos)
    IN IF r.result = Panic THEN Panic
       ELSE IF r.result[1] = "Err" THEN r.result
       ELSE IF r.result[2] = None THEN Ok([services |-> services])
       ELSE ReadMcaServices(registry, lines, r.pos,
              Append(services,
                     [r.result[2][2] EXCEPT !.id = Len(services)]))

\* Timetable::read_mca_file
read_mca_file(registry, lines) == ReadMcaServices(registry, lines, 1, <<>>)

\* Largest number of lines in a schedule feed.
MaxMcaLines == 5

\* The registry the schedule feed is read against: a comment line, the
\* header and five station records.
McaRegistry ==
    read_msn_file(<< [kind |-> "/", len |-> 17, inner |-> {}],
                     [kind |-> "A", len |-> 82, inner |-> {}],
                     ALine("KINGS LYNN", "KLYNN", "KLN", 5, 5623, 3201),
                     ALine("WATLINGTON", "WATLGTN", "WTG", 5, 5612, 3110),
                     ALine("CAMBRIDGE", "CAMBDGE", "CBG", 5, 5462, 2573),
                     ALine("STEVENAGE", "STEVNGE", "SVG", 4, 5235, 2238),
                     ALine("LONDON KINGS CROSS", "KNGX", "KGX", 15, 5303,
                           1830) >>)[2]

\* The lines of the feeds, of 80 columns and a line end unless said: two
\* schedule records, an origin, an intermediate and a terminal record of
\* known stations, an origin record without a public departure, an
\* intermediate record of a known station with a pass time, one of a
\* station the registry does not hold, one of a known station whose pass
\* time holds a digit of two bytes (bytes 22 and 23), a record of another
\* type, a schedule record too short to parse, an origin record whose
\* TIPLOC field ends inside a character (bytes 8 and 9), a line whose
\* second character lies on bytes 1 and 2, and an empty line.
McaLinePool ==
    { [kind |-> "BS", len |-> 81, inner |-> {}, train_uid |-> "L22108"],
      [kind |-> "BS", len |-> 81, inner |-> {}, train_uid |-> "L22119"],
      [kind |-> "BS", len |-> 10, inner |-> {}],
      [kind |-> "LO", len |-> 81, inner |-> {}, tiploc |-> "KLYNN",
       public_departure |-> <<"1", "0", "4", "5">>],
      [kind |-> "LO", len |-> 81, inner |-> {}, tiploc |-> "KLYNN",
       public_departure |-> <<>>],
      [kind |-> "LO", len |-> 81, inner |-> {9}],
      [kind |-> "LI", len |-> 81, inner |-> {}, tiploc |-> "WATLGTN",
       scheduled_pass |-> <<>>, public_arrival |-> <<"1", "0", "5", "2">>,
       public_departure |-> <<"1", "0", "5", "2">>],
      [kind |-> "LI", len |-> 81, inner |-> {}, tiploc |-> "STEVNGE",
       scheduled_pass |-> <<"1", "2", "1", "1", "H">>,
       public_arrival |-> <<"0", "0", "0", "0">>,
       public_departure |-> <<"0", "0", "0", "0">>],
      [kind |-> "LI", len |-> 81, inner |-> {}, tiploc |-> "ELYY",
       scheduled_pass |-> <<>>, public_arrival |-> <<"1", "1", "0", "0">>,
       public_departure |-> <<"1", "1", "0", "1">>],
      [kind |-> "LI", len |-> 81, inner |-> {23}, tiploc |-> "KNGX",
       scheduled_pass |-> <<"1", "2", ArabicIndicThree, "4">>,
       public_arrival |-> <<"1", "0", "5", "2">>,
       public_departure |-> <<"1", "0", "5", "3">>],
      [kind |-> "LT", len |-> 81, inner |-> {}, tiploc |-> "KNGX",
       public_arrival |-> <<"1", "2", "3", "5">>],
      [kind |-> "BX", len |-> 81, inner |-> {}],
      [kind |-> "B", len |-> 19, inner |-> {2}],
      [kind |-> "", len |-> 1, inner |-> {}] }

McaFeeds == UNION { [1 .. n -> McaLinePool] : n \in 0 .. MaxMcaLines }

\* read_mca_file is about to be called on a feed.
InitMca ==
    /\ call \in [op : {"read_mca_file"}, lines : McaFeeds]
    /\ ret = <<>>
    /\ stations = <<>> /\ fixedlinks = <<>> /\ timetable = <<>>
    /\ graph = <<>> /\ req = <<>> /\ pathfinder = <<>> /\ pc = <<>>
    /\ tovisit = <<>> /\ journeys = <<>>

\* read_mca_file returns the timetable.
McaReadOk ==
    LET r == read_mca_file(McaRegistry, call.lines)
    IN /\ ret = <<>>
       /\ r # Panic
       /\ r[1] = "Ok"
       /\ Returns("read_mca_file", r)

\* read_mca_file returns an error.
McaReadErr ==
    LET r == read_mca_file(McaRegistry, call.lines)
    IN /\ ret = <<>>
       /\ r # Panic
       /\ r[1] = "Err"
       /\ Returns("read_mca_file", r)

\* read_mca_file panics: in the slice of a line or of a field, in
\* from_24h, or in the unwrap of a missing time.
McaReadPanics ==
    /\ ret = <<>>
    /\ read_mca_file(McaRegistry, call.lines) = Panic
    /\ Returns("read_mca_file", Panic)

NextMca == McaReadOk \/ McaReadErr \/ McaReadPanics

SpecMca == InitMca /\ [][NextMca]_vars

\* The positions of the LT lines that close a BS ... LT group: those with a
\* BS line before them and after the LT line before them, if any.
GroupEnds(lines) ==
    {k \in DOMAIN lines :
       /\ lines[k].kind = "LT"
       /\ \E b \in 1 .. k - 1 :
            /\ lines[b].kind = "BS"
            /\ \A j \in b + 1 .. k - 1 : lines[j].kind # "LT"}

\* C22: when read_mca_file succeeds, the timetable holds one service for
\* each BS ... LT group of the input, in input order, whatever lines stand
\* between the groups, and the service at index i has id i.
C22_ServicePerGroup ==
    (ret # <<>> /\ call.op = "read_mca_file" /\ ret # Panic
       /\ ret[1] = "Ok") =>
      LET services == ret[2].services
          ends == GroupEnds(call.lines)
      IN /\ Len(services) = Cardinality(ends)
         /\ \A i \in DOMAIN services : services[i].id = i - 1
         /\ \A i \in DOMAIN services :
              \E k \in ends :
                /\ Cardinality({e \in ends : e < k}) = i - 1
                /\ \E b \in 1 .. k - 1 :
                     /\ call.lines[b].kind = "BS"
                     /\ \A j \in b + 1 .. k - 1 :
                          call.lines[j].kind \notin {"BS", "LT"}
                     /\ services[i].train_uid = call.lines[b].train_uid

----------------------------------------------------------------------------
(* compute_journeys on any request the server accepts.                     *)

\* The u32 arithmetic of visit_next for one link leaves the range:
\* transfer_time + contingency, the timetil of the flexible-departure test,
\* curtime.add(chngtime), chngtime + timetil, tovisit.time + waittime +
\* rlink.time, and the add of the clock stored on an improvement.
LinkOverflows(self, node, tv, curtime, lastlink, link) ==
    IF link.kind = "Rail"
      THEN LET chngtime == ChangeTime(self, node, lastlink, link)
               atorigin == tv.station = self.origin
               flexi == atorigin
                          /\ U32Lt(timetil(curtime, link.depart),
                                   self.flexi_depart)
               waittime == WaitTime(self, tv, curtime, chngtime, link)
           IN \/ /\ ischange(lastlink, link)
                 /\ addOverflows(node.transfer_time, self.contingency)
              \/ atorigin /\ timetilOverflows(curtime, link.depart)
              \/ /\ ~flexi
                 /\ \/ addOverflows(curtime, chngtime)
                    \/ timetilOverflows(add(curtime, chngtime), link.depart)
                    \/ addOverflows(chngtime,
                                    timetil(add(curtime, chngtime),
                                            link.depart))
              \/ addOverflows(tv.time, waittime)
              \/ addOverflows(U32Add(tv.time, waittime), link.time)
              \/ /\ Improves(DstTime(self, node, tv, curtime, lastlink,
                                     link),
                             self.nodes[link.dst].time)
                 /\ addOverflows(link.depart, link.time)
    ELSE IF link.kind = "Fixed"
      THEN \/ addOverflows(tv.time, link.time)
           \/ /\ Improves(U32Add(tv.time, link.time),
                          self.nodes[link.dst].time)
              /\ addOverflows(curtime, link.time)
    ELSE FALSE

\* Some arithmetic of visit_next overflows on the links it examines from
\* link i on, up to its first improving link.
RECURSIVE VisitOverflowsFrom(_, _, _, _, _, _)
VisitOverflowsFrom(self, node, tv, curtime, lastlink, i) ==
    IF i > Len(node.links) THEN FALSE
    ELSE LET link == node.links[i]
         IN \/ LinkOverflows(self, node, tv, curtime, lastlink, link)
            \/ /\ ~(/\ link.kind \in {"Rail", "Fixed"}
                    /\ Improves(DstTime(self, node, tv, curtime,
                                        lastlink, link),
                                self.nodes[link.dst].time))
               /\ VisitOverflowsFrom(self, node, tv, curtime, lastlink,
                                     i + 1)

VisitOverflows(self, g, tv) ==
    VisitOverflowsFrom(self, g[tv.station], tv, self.nodes[tv.station].depart,
                       self.nodes[tv.station].last_link, 1)

RECURSIVE PerformLoopOverflows(_, _)
\* perform's loop, run until the queue is empty, reaches a visit whose
\* arithmetic overflows.
PerformLoopOverflows(self, g) ==
    IF self.visitq = {} THEN FALSE
    ELSE LET tv == CHOOSE e \in self.visitq : IsFirst(e, self.visitq)
             r == PerformIter([self EXCEPT !.visitq = @ \ {tv}], g, tv)
         IN \/ /\ tv.time = self.nodes[tv.station].time
               /\ VisitOverflows(self, g, tv)
            \/ r.pc # "panic" /\ PerformLoopOverflows(r.pf, g)

\* compute_journeys reaches arithmetic that leaves the u32 range, in
\* perform or in best_journey: a build with overflow checks panics there,
\* a build without them returns what compute_journeys gives.
compute_journeysOverflows(g, depart, origin, dests, contingency, flexi) ==
    LET begin == PerformBegin(TimeDijkstrasNew(Cardinality(DOMAIN g),
                                               contingency),
                              origin, depart, flexi)
    IN \/ PerformLoopOverflows(begin, g)
       \/ /\ PerformLoop(begin, g).pc = "done"
          /\ \E i \in DOMAIN dests :
               best_journeyOverflows(PerformLoop(begin, g).pf, dests[i])

\* The requests of the server: a start time below a day or "9999", which
\* from_24h accepts as well, and the ends of the range of the two u32
\* request values.
WideDeparts == { T(0, 0), from_24h(<<"9", "9", "9", "9">>)[2] }
WideContingencies == { 0, UINT_MAX }
WideFlexiDeparts == { 0, UINT_MAX }

WideRequests(n) ==
    [depart : WideDeparts, origin : StationIds(n),
     destinations : { [i \in 1 .. n |-> i - 1] },
     contingency : WideContingencies, flexi_depart : WideFlexiDeparts]

\* The fixed-link lists of these calls: also a walk of 2880 minutes, which
\* the fixed-link parser accepts.
WideFixedLinkLists ==
    FixedLinkLists
      \cup { << [a |-> 0, b |-> 1, time |-> 2880 * 60, kind |-> "Walk"] >> }

\* One call of compute_journeys with such a request.
InitWide ==
    /\ stations \in Registries
    /\ fixedlinks \in WideFixedLinkLists
    /\ timetable \in {tt \in Timetables : Len(tt) <= MaxSharedServices}
    /\ ValidInput(stations, fixedlinks, timetable)
    /\ graph = TravelGraphNew(stations, fixedlinks, timetable)
    /\ req \in [{1} -> WideRequests(Len(stations))]
    /\ pathfinder = [q \in {1} |->
                       TimeDijkstrasNew(Len(stations), req[q].contingency)]
    /\ pc = [q \in {1} |-> "new"]
    /\ tovisit = [q \in {1} |-> <<>>]
    /\ journeys = [q \in {1} |-> <<>>]
    /\ call = <<>>
    /\ ret = <<>>

\* The visit of the first entry of query q's queue overflows and the build
\* checks the arithmetic: the call panics.
VisitPanics(q) ==
    /\ pc[q] = "loop" /\ pathfinder[q].visitq # {}
    /\ \E tv \in pathfinder[q].visitq :
         /\ IsFirst(tv, pathfinder[q].visitq)
         /\ tv.time = pathfinder[q].nodes[tv.station].time
         /\ VisitOverflows(pathfinder[q], graph, tv)
         /\ pathfinder' = [pathfinder EXCEPT ![q].visitq = @ \ {tv}]
         /\ tovisit' = [tovisit EXCEPT ![q] = <<tv>>]
    /\ pc' = [pc EXCEPT ![q] = "panic"]
    /\ UNCHANGED <<stations, fixedlinks, timetable, graph, req, journeys,
                   call, ret>>

\* perform has returned and best_journey overflows for a destination of
\* query q in a build that checks the arithmetic: the call panics.
ReturnPanics(q) ==
    /\ pc[q] = "loop" /\ pathfinder[q].visitq = {}
    /\ \E i \in DOMAIN req[q].destinations :
         best_journeyOverflows(pathfinder[q], req[q].destinations[i])
    /\ pc' = [pc EXCEPT ![q] = "panic"]
    /\ UNCHANGED <<stations, fixedlinks, timetable, graph, req, pathfinder,
                   tovisit, journeys, call, ret>>

\* Where the arithmetic overflows, a build without overflow checks goes on
\* with the wrapped value (Visit, Return) and a build with them panics.
NextWide ==
    \/ \E q \in Queries : Perform({q})
    \/ \E q \in Queries : Visit({q})
    \/ \E q \in Queries : VisitPanics(q)
    \/ \E q \in Queries : Return({q})
    \/ \E q \in Queries : ReturnPanics(q)

SpecWide == InitWide /\ [][NextWide]_vars

\* C23: over a valid graph compute_journeys never fails, whatever the u32
\* contingency and flexi_depart and the accepted start time: no addition
\* or subtraction of a visit overflows, and the call never panics.
C23_NeverFails ==
    \A q \in Queries :
      /\ pc[q] # "panic"
      /\ pc[q] = "new" =>
           ~compute_journeysOverflows(graph, req[q].depart, req[q].origin,
                                      req[q].destinations, req[q].contingency,
                                      req[q].flexi_depart)
      /\ pc[q] = "loop" =>
           \A tv \in pathfinder[q].visitq :
             (/\ IsFirst(tv, pathfinder[q].visitq)
              /\ tv.time = pathfinder[q].nodes[tv.station].time) =>
               ~VisitOverflows(pathfinder[q], graph, tv)

----------------------------------------------------------------------------
(* The order of the links of a station.                                    *)

\* The link list links with the links at positions i and j exchanged.
SwapLinks(links, i, j) ==
    [k \in DOMAIN links |->
       IF k = i THEN links[j] ELSE IF k = j THEN links[i] ELSE links[k]]

\* The graphs that have the links of g at every station, two links of one
\* station having changed places.
LinkSwaps(g) ==
    UNION { { [g EXCEPT ![s].links = SwapLinks(g[s].links, i, j)] :
                i \in 1 .. j - 1 } :
            <<s, j>> \in UNION { {s} \X DOMAIN g[s].links : s \in DOMAIN g } }

\* The TimeDijkstras after perform for the request r over the graph g.
PerformOn(g, r) ==
    PerformLoop(PerformBegin(TimeDijkstrasNew(Cardinality(DOMAIN g),
                                              r.contingency),
                             r.origin, r.depart, r.flexi_depart), g)

\* C24: the order of the links in a station's list does not change the
\* result: over a graph with the same links at every station in another
\* order, the same query ends with the same best time at every station.
C24_LinkOrderIrrelevant ==
    \A q \in Queries :
      Done(q) =>
        \A g2 \in LinkSwaps(graph) :
          /\ PerformOn(g2, req[q]).pc = "done"
          /\ \A s \in DOMAIN graph :
               PerformOn(g2, req[q]).pf.nodes[s].time
                 = pathfinder[q].nodes[s].time

----------------------------------------------------------------------------
(* The visit queue.                                                        *)

\* Query q has just popped a stale entry: one above its station's best.
PoppedStale(q) ==
    /\ pc[q] = "loop" /\ tovisit[q] # <<>>
    /\ U32Gt(tovisit[q][1].time,
             pathfinder[q].nodes[tovisit[q][1].station].time)

\* C25: in the loop of perform every queue entry (s, t) has
\* t >= BestJourney[s].time, so the assertion on a popped entry never
\* fails; popping a stale entry (t > BestJourney[s].time) leaves every
\* BestJourney record and the rest of the queue as they were.
C25_QueueAboveBest ==
    /\ [](\A q \in Queries :
            /\ pc[q] # "panic"
            /\ pc[q] = "loop" =>
                 \A e \in pathfinder[q].visitq :
                   U32Le(pathfinder[q].nodes[e.station].time, e.time))
    /\ [][\A q \in Queries :
            (/\ pc[q] = "loop" /\ pathfinder'[q] # pathfinder[q]
             /\ U32Gt(tovisit'[q][1].time,
                      pathfinder[q].nodes[tovisit'[q][1].station].time)) =>
              /\ pc'[q] = "loop"
              /\ pathfinder'[q].nodes = pathfinder[q].nodes
              /\ pathfinder'[q].visitq
                   = pathfinder[q].visitq \ {tovisit'[q][1]}]_vars

C25_Witness == \E q \in Queries : PoppedStale(q)

----------------------------------------------------------------------------
(* One visit.                                                              *)

\* The time at which link i of the station of the entry tv reaches its
\* destination in a visit of tv by self.
CandidateTime(self, g, tv, i) ==
    DstTime(self, g[tv.station], tv, self.nodes[tv.station].depart,
            self.nodes[tv.station].last_link, g[tv.station].links[i])

\* The positions of the links of tv's station that improve their
\* destination in a visit of tv by self.
ImprovingLinks(self, g, tv) ==
    { i \in DOMAIN g[tv.station].links :
        /\ g[tv.station].links[i].kind \in {"Rail", "Fixed"}
        /\ U32Lt(CandidateTime(self, g, tv, i),
                 self.nodes[g[tv.station].links[i].dst].time) }

\* C26: a visit of station u at time T changes at most the BestJourney
\* record of the destination v of the first link of u, in list order, that
\* strictly improves its destination; then (v, T') and (u, T) are both in
\* the queue after the visit and no later link is applied; if no link
\* improves, no record changes and u is not put back on the queue.
C26_FirstImprovingLink ==
    [][\A q \in Queries :
         (/\ pc[q] = "loop" /\ pathfinder'[q] # pathfinder[q]
          /\ tovisit'[q][1].time
               = pathfinder[q].nodes[tovisit'[q][1].station].time) =>
           LET self == pathfinder[q]
               tv == tovisit'[q][1]
               rest == self.visitq \ {tv}
               imp == ImprovingLinks([self EXCEPT !.visitq = rest], graph, tv)
           IN IF imp = {}
                THEN /\ pathfinder'[q].nodes = self.nodes
                     /\ pathfinder'[q].visitq = rest
                ELSE LET i == CHOOSE k \in imp : \A j \in imp : k <= j
                         link == graph[tv.station].links[i]
                         t == CandidateTime(self, graph, tv, i)
                     IN /\ \A s \in DOMAIN graph :
                             s # link.dst =>
                               pathfinder'[q].nodes[s] = self.nodes[s]
                        /\ pathfinder'[q].nodes[link.dst].time = t
                        /\ pathfinder'[q].nodes[link.dst].last_link = link
                        /\ pathfinder'[q].nodes[link.dst].last_station
                             = tv.station
                        /\ pathfinder'[q].visitq
                             = rest \cup {tv, [station |-> link.dst,
                                               time |-> t]}]_vars

\* A visit has applied an improving link and put its station back on the
\* queue while a later link of the station still improves its destination.
C26_Witness ==
    \E q \in Queries :
      /\ pc[q] = "loop" /\ tovisit[q] # <<>>
      /\ tovisit[q][1] \in pathfinder[q].visitq
      /\ tovisit[q][1].time
           = pathfinder[q].nodes[tovisit[q][1].station].time
      /\ ImprovingLinks(pathfinder[q], graph, tovisit[q][1]) # {}

----------------------------------------------------------------------------
(* The clock of a BestJourney record.                                      *)

\* On every step that changes the record of a station to one whose
\* last_link is a Fixed link, the clock stored is the clock of the visited
\* station plus the link's time: the arrival clock at the station.
FixedDepartIsArrival ==
    [][\A q \in Queries : \A v \in DOMAIN graph :
         (/\ pc[q] = "loop"
          /\ pathfinder'[q].nodes[v] # pathfinder[q].nodes[v]
          /\ pathfinder'[q].nodes[v].last_link.kind = "Fixed") =>
           pathfinder'[q].nodes[v].depart
             = (pathfinder[q].nodes[tovisit'[q][1].station].depart
                  + pathfinder'[q].nodes[v].last_link.time) % DAY]_vars

\* C27 (as claimed): the depart field of a station last improved through a
\* Rail link is the clock at which that link left its source station; for
\* a station last improved through a Fixed link it is the arrival clock at
\* the station.
C27_DepartIsLinkDeparture ==
    /\ [](\A q \in Queries : \A v \in DOMAIN graph :
            pathfinder[q].nodes[v].last_link.kind = "Rail" =>
              pathfinder[q].nodes[v].depart
                = pathfinder[q].nodes[v].last_link.depart)
    /\ FixedDepartIsArrival

\* C27 (amended): the depart field of a station last improved through a
\* Rail link is the clock at which that link arrives at the station, the
\* link's departure clock plus its time modulo a day; for a station last
\* improved through a Fixed link it is the arrival clock at the station.
C27_DepartIsArrival ==
    /\ [](\A q \in Queries : \A v \in DOMAIN graph :
            pathfinder[q].nodes[v].last_link.kind = "Rail" =>
              pathfinder[q].nodes[v].depart
                = (pathfinder[q].nodes[v].last_link.depart
                     + pathfinder[q].nodes[v].last_link.time) % DAY)
    /\ FixedDepartIsArrival

\* A query has improved one station through a Rail link that takes time
\* and another through a Fixed link that takes time.
C27_Witness ==
    \E q \in Queries :
      /\ \E v \in DOMAIN graph :
           /\ pathfinder[q].nodes[v].last_link.kind = "Rail"
           /\ pathfinder[q].nodes[v].last_link.time > 0
      /\ \E v \in DOMAIN graph :
           /\ pathfinder[q].nodes[v].last_link.kind = "Fixed"
           /\ pathfinder[q].nodes[v].last_link.time > 0

\* C28: with flexi_depart = 0, in every state of perform each station with
\* a finite best time has as stored clock the requested departure clock
\* plus its best time, modulo a day: the clock at which the passenger
\* stands there after that many seconds.
C28_ClockIsStartPlusTime ==
    \A q \in Queries :
      (pc[q] \in {"loop", "done"} /\ req[q].flexi_depart = 0) =>
        \A v \in DOMAIN graph :
          pathfinder[q].nodes[v].time # UINT_MAX =>
            pathfinder[q].nodes[v].depart
              = U32Mod(U32Add(req[q].depart, pathfinder[q].nodes[v].time),
                       DAY)

\* With flexi_depart = 0 a station other than the origin is reached on a
\* later day than the requested departure.
C28_Witness ==
    \E q \in Queries :
      /\ pc[q] \in {"loop", "done"} /\ req[q].flexi_depart = 0
      /\ \E v \in DOMAIN graph :
           /\ v # req[q].origin
           /\ pathfinder[q].nodes[v].time # UINT_MAX
           /\ req[q].depart + pathfinder[q].nodes[v].time >= DAY

----------------------------------------------------------------------------
(* The contingency.                                                        *)

\* Two services from station 0 that meet at station 1: one ends there at
\* 00:20, the other calls there at 00:21 and goes on to station 2.
ConnectionPool ==
    << << Stop(0, T(0, 5), T(0, 5)), Stop(1, T(0, 20), T(0, 20)) >>,
       << Stop(0, T(0, 8), T(0, 8)), Stop(1, T(0, 21), T(0, 21)),
          Stop(2, T(0, 40), T(0, 40)) >> >>

ConnectionTimetables ==
    { MakeTimetable(Pick(ConnectionPool, idx, 1)) :
        idx \in SUBSET (1 .. Len(ConnectionPool)) }

\* One call of compute_journeys over a graph of these services, three
\* stations with a minimum interchange time of two minutes each.
InitConnection ==
    /\ stations = <<120, 120, 120>>
    /\ fixedlinks \in FixedLinkLists
    /\ timetable \in ConnectionTimetables
    /\ ValidInput(stations, fixedlinks, timetable)
    /\ graph = TravelGraphNew(stations, fixedlinks, timetable)
    /\ req \in [{1} -> Requests(Len(stations))]
    /\ pathfinder = [q \in {1} |->
                       TimeDijkstrasNew(Len(stations), req[q].contingency)]
    /\ pc = [q \in {1} |-> "new"]
    /\ tovisit = [q \in {1} |-> <<>>]
    /\ journeys = [q \in {1} |-> <<>>]
    /\ call = <<>>
    /\ ret = <<>>

SpecConnection == InitConnection /\ [][Next]_vars

\* C29: the reported journey time is monotone in the contingency: for the
\* same graph, origin, departure time and flexi_depart, the time returned
\* for a destination with a contingency c2 is at least the time returned
\* with any contingency c1 <= c2.
C29_MonotoneInContingency ==
    \A q \in Queries :
      Done(q) =>
        \A c1 \in Contingencies :
          U32Le(c1, req[q].contingency) =>
            LET lower == compute_journeys(graph, req[q].depart, req[q].origin,
                                          req[q].destinations, c1,
                                          req[q].flexi_depart)
            IN /\ lower # Panic
               /\ \A i \in DOMAIN journeys[q] :
                    U32Le(lower[i].time, journeys[q][i].time)

----------------------------------------------------------------------------
(* The predecessor chain.                                                  *)

RECURSIVE Ancestor(_, _, _)
\* The station reached from v by following last_station n times, or until
\* a record whose last_link is Dummy.
Ancestor(pf, v, n) ==
    IF n = 0 \/ pf.nodes[v].last_link = Dummy THEN v
    ELSE Ancestor(pf, pf.nodes[v].last_station, n - 1)

RECURSIVE RailRun(_, _, _, _, _, _)
\* From station s, at most n consecutive Rail links of the service of the
\* journey link l end at l.dst and take l.time together, the first of them
\* leaving at l.depart when first is set.
RailRun(g, s, l, first, remaining, n) ==
    /\ n > 0
    /\ \E i \in DOMAIN g[s].links :
         LET k == g[s].links[i]
         IN /\ k.kind = "Rail" /\ k.service = l.service
            /\ first => k.depart = l.depart
            /\ k.time <= remaining
            /\ \/ k.dst = l.dst /\ k.time = remaining
               \/ RailRun(g, k.dst, l, FALSE, remaining - k.time, n - 1)

RECURSIVE PathFrom(_, _, _, _, _)
\* The journey links from position i on are a path of the graph g from
\* station s: a Fixed link is a link of the station it leaves, a Rail link
\* a run of links of one service; n bounds the length of a run.
PathFrom(g, s, links, i, n) ==
    IF i > Len(links) THEN TRUE
    ELSE /\ IF links[i].kind = "Rail"
              THEN RailRun(g, s, links[i], TRUE, links[i].time, n)
              ELSE \E k \in DOMAIN g[s].links : g[s].links[k] = links[i]
         /\ PathFrom(g, links[i].dst, links, i + 1, n)

RECURSIVE SumTimes(_, _)
\* The sum of the times of the links from position i on.
SumTimes(links, i) ==
    IF i > Len(links) THEN 0 ELSE links[i].time + SumTimes(links, i + 1)

\* The largest number of links a service contributes.
LongestRun(tt) ==
    IF tt = <<>> THEN 0
    ELSE CHOOSE n \in { Len(tt[i].stops) : i \in DOMAIN tt } :
           \A i \in DOMAIN tt : n >= Len(tt[i].stops)

\* C30: the predecessor chain of every station is acyclic and ends at a
\* Dummy record, the origin's for a reached station, so best_journey
\* terminates; for every reached destination d other than the origin the
\* links returned are a connected path of the graph from the origin whose
\* last link has dst = d, and their times add up to at most the journey's
\* time.
C30_ChainIsPath ==
    \A q \in Queries :
      /\ pc[q] \in {"loop", "done"} =>
           \A v \in DOMAIN graph :
             LET a == Ancestor(pathfinder[q], v, Cardinality(DOMAIN graph))
             IN /\ pathfinder[q].nodes[a].last_link = Dummy
                /\ pathfinder[q].nodes[v].time # UINT_MAX =>
                     a = req[q].origin
      /\ Done(q) =>
           \A i \in DOMAIN journeys[q] :
             LET d == req[q].destinations[i]
                 j == journeys[q][i]
             IN (j.time # UINT_MAX /\ d # req[q].origin) =>
                  /\ j.links # <<>>
                  /\ j.links[Len(j.links)].dst = d
                  /\ PathFrom(graph, req[q].origin, j.links, 1,
                              LongestRun(timetable))
                  /\ U32Le(SumTimes(j.links, 1), j.time)

\* A journey of two links has been returned, the first a Rail link that
\* spans more than one link of the graph.
C30_Witness ==
    \E q \in Queries :
      /\ Done(q)
      /\ \E i \in DOMAIN journeys[q] :
           /\ Len(journeys[q][i].links) >= 2
           /\ journeys[q][i].links[1].kind = "Rail"
           /\ \A k \in DOMAIN graph[req[q].origin].links :
                graph[req[q].origin].links[k] # journeys[q][i].links[1]

====
